---- MODULE Spec2Model ----
(***************************************************************************)
(* Floor Plan Navigator: the networkx graph held by a PathFinder, and the  *)
(* PathFinder queries of src/backend/pathfinder.py.                        *)
(*                                                                         *)
(* A graph is the networkx Graph the code holds: `order` is the insertion  *)
(* order of the nodes, `attr` the attribute dict of each node, `adj` the   *)
(* insertion-ordered neighbours of each node, `data` the attribute dict of *)
(* each edge (one dict shared by both directions).                         *)
(* The library calls (nx.shortest_path, nx.astar_path, ...) are modelled   *)
(* by the algorithm the library runs, iteration order included.            *)
(***************************************************************************)
EXTENDS Integers, Sequences, FiniteSets, TLC

VARIABLES
    floor_data, \* GraphBuilder.floor_data
    graph,      \* PathFinder.graph, GraphBuilder.graph
    last,       \* the most recent call on the object, with its outcome
    johnson     \* the position of a find_shortest_path call in progress

vars == <<floor_data, graph, last, johnson>>

----------------------------------------------------------------------------
(* Bounds of the model. *)

\* Edges of the graphs a PathFinder is constructed with.
MaxEdges == 3

\* Largest edge weight of those graphs.
MaxWeight == 1

\* Largest max_paths argument tried.
MaxPathsArg == 2

\* Room identifiers.
RoomIds == {"A", "B", "C", "D"}

\* Edge weights of those graphs: the non-negative ones, and those with a
\* negative weight among them (-1 stands for the negative weights).
NonNegWeights == 0..MaxWeight
SignedWeights == {-1} \cup NonNegWeights

\* cutoff of find_all_paths.
Cutoff == 10

\* Queue pops after which an A* search is taken not to terminate.
AstarFuel == 30

\* Rooms, doors and ids of a door's connects list in the floor data given to
\* a GraphBuilder.
MaxRooms == 3
MaxDoors == 2
MaxConnects == 3

----------------------------------------------------------------------------
(* Generic helpers. *)

EmptyFn == [x \in {} |-> x]

Range(s) == {s[i] : i \in 1..Len(s)}

Reverse(s) == [i \in 1..Len(s) |-> s[Len(s) + 1 - i]]

\* dict[k] = v, keeping the other entries.
Put(f, k, v) == (k :> v) @@ f

\* dict.update(g): the entries of g win.
Update(f, g) == g @@ f

RECURSIVE SumSeq(_)
SumSeq(s) == IF s = <<>> THEN 0 ELSE Head(s) + SumSeq(Tail(s))

----------------------------------------------------------------------------
(* networkx.Graph, as far as the code uses it. *)

EmptyGraph == [order |-> <<>>, attr |-> EmptyFn, adj |-> EmptyFn, data |-> EmptyFn]

has_node(G, n) == n \in DOMAIN G.adj

has_edge(G, u, v) == <<u, v>> \in DOMAIN G.data

\* Graph.add_node(n, **attr): a new node is appended, an existing node's
\* attribute dict is updated.
add_node(G, n, attr) ==
    IF has_node(G, n)
    THEN [G EXCEPT !.attr[n] = Update(@, attr)]
    ELSE [G EXCEPT !.order = Append(@, n),
                   !.attr = Put(@, n, attr),
                   !.adj = Put(@, n, <<>>)]

\* add_edge, first part: a missing endpoint becomes a node without
\* attributes.
add_endpoint(G, n) == IF has_node(G, n) THEN G ELSE add_node(G, n, EmptyFn)

\* add_edge, second part, both endpoints being nodes: a new edge goes to
\* the end of both neighbour dicts, an existing edge keeps its place and has
\* its data dict updated.
add_edge_data(G, u, v, attr) ==
    IF has_edge(G, u, v)
    THEN [G EXCEPT !.data[<<u, v>>] = Update(@, attr),
                   !.data[<<v, u>>] = Update(@, attr)]
    ELSE [G EXCEPT !.adj[u] = Append(@, v),
                   !.adj[v] = IF u = v THEN @ ELSE Append(@, u),
                   !.data = Put(Put(@, <<u, v>>, attr), <<v, u>>, attr)]

\* Graph.add_edge(u, v, **attr).
add_edge(G, u, v, attr) == add_edge_data(add_endpoint(add_endpoint(G, u), v), u, v, attr)

\* dict.get(key, default).
get(d, key, default) == IF key \in DOMAIN d THEN d[key] ELSE default

\* _weight_function(G, "weight"): data.get("weight", 1).
weight(G, u, v) == get(G.data[<<u, v>>], "weight", 1)

----------------------------------------------------------------------------
(* Outcome of a library call: a returned value or a raised exception. *)

Ok(v) == [exc |-> "none", val |-> v]

Raise(e) == [exc |-> e, val |-> <<>>]

(* heapq: the fringe holds tuples <<distance, counter, node>>; heappop     *)
(* takes the least tuple, so the least distance and, among equals, the     *)
(* entry pushed first.                                                     *)
PopMin(fringe) ==
    CHOOSE i \in 1..Len(fringe) :
        \A j \in 1..Len(fringe) :
            \/ fringe[i][1] < fringe[j][1]
            \/ fringe[i][1] = fringe[j][1] /\ fringe[i][2] <= fringe[j][2]

Remove(s, i) == SubSeq(s, 1, i - 1) \o SubSeq(s, i + 1, Len(s))

----------------------------------------------------------------------------
(* nx.dijkstra_path_length: _dijkstra_multisource with a target.  It is    *)
(* what nx.shortest_path_length(G, s, t, weight="weight") runs.            *)
(* A search state st has the dicts dist and seen, the fringe, the counter  *)
(* c and the exception raised, if any.                                     *)

\* The body of `for u, e in G_succ[v].items()`, vu_dist being
\* dist[v] + cost.
dijkstra_edge(st, u, vu_dist) ==
    IF u \in DOMAIN st.dist
    THEN IF vu_dist < st.dist[u] THEN [st EXCEPT !.exc = "ValueError"] ELSE st
    ELSE IF u \notin DOMAIN st.seen \/ vu_dist < st.seen[u]
    THEN [st EXCEPT !.seen = Put(@, u, vu_dist),
                    !.fringe = Append(@, <<vu_dist, st.c, u>>),
                    !.c = @ + 1]
    ELSE st

RECURSIVE dijkstra_relax(_, _, _, _)
dijkstra_relax(G, v, nbrs, st) ==
    IF st.exc # "none" \/ nbrs = <<>> THEN st
    ELSE dijkstra_relax(G, v, Tail(nbrs),
             dijkstra_edge(st, Head(nbrs), st.dist[v] + weight(G, v, Head(nbrs))))

RECURSIVE dijkstra_loop(_, _, _)

\* The body of `while fringe` once (d, _, v) is popped.
dijkstra_visit(G, target, st, d, v) ==
    IF v \in DOMAIN st.dist THEN dijkstra_loop(G, target, st)
    ELSE IF v = target THEN [st EXCEPT !.dist = Put(@, v, d)]
    ELSE dijkstra_loop(G, target,
             dijkstra_relax(G, v, G.adj[v], [st EXCEPT !.dist = Put(@, v, d)]))

dijkstra_pop(G, target, st, i) ==
    dijkstra_visit(G, target, [st EXCEPT !.fringe = Remove(@, i)],
                   st.fringe[i][1], st.fringe[i][3])

dijkstra_loop(G, target, st) ==
    IF st.exc # "none" \/ st.fringe = <<>> THEN st
    ELSE dijkstra_pop(G, target, st, PopMin(st.fringe))

\* length[target], or NetworkXNoPath on the KeyError.
dijkstra_length(st, target) ==
    IF st.exc # "none" THEN Raise(st.exc)
    ELSE IF target \in DOMAIN st.dist THEN Ok(st.dist[target])
    ELSE Raise("NetworkXNoPath")

dijkstra_path_length(G, source, target) ==
    IF ~has_node(G, source) THEN Raise("NodeNotFound")
    ELSE IF source = target THEN Ok(0)
    ELSE dijkstra_length(
             dijkstra_loop(G, target,
                 [exc |-> "none", dist |-> EmptyFn, seen |-> (source :> 0),
                  fringe |-> << <<0, 0, source>> >>, c |-> 1]),
             target)

----------------------------------------------------------------------------
(* nx.bidirectional_dijkstra: what nx.shortest_path(G, s, t,               *)
(* weight="weight") runs.  Direction 1 is forward, 2 is backward.          *)

\* Mutant of bidirectional_meet: the first path found is final, a shorter
\* one met later does not replace it.
bidirectional_meet_first(st, w) ==
    IF /\ w \in DOMAIN st.seen[1]
       /\ w \in DOMAIN st.seen[2]
       /\ st.finalpath = <<>>
    THEN [st EXCEPT !.finaldist = st.seen[1][w] + st.seen[2][w],
                    !.finalpath = st.paths[1][w] \o Tail(Reverse(st.paths[2][w]))]
    ELSE st

\* Mutant of bidirectional_meet: a path met later replaces the final path
\* when it is as short.
bidirectional_meet_last(st, w) ==
    IF /\ w \in DOMAIN st.seen[1]
       /\ w \in DOMAIN st.seen[2]
       /\ (st.finalpath = <<>> \/ st.finaldist >= st.seen[1][w] + st.seen[2][w])
    THEN [st EXCEPT !.finaldist = st.seen[1][w] + st.seen[2][w],
                    !.finalpath = st.paths[1][w] \o Tail(Reverse(st.paths[2][w]))]
    ELSE st

\* After w is relaxed: `if w in seen[0] and w in seen[1]`, the path through
\* w replaces the final path when it is the first or a shorter one.
bidirectional_meet(st, w) ==
    IF /\ w \in DOMAIN st.seen[1]
       /\ w \in DOMAIN st.seen[2]
       /\ (st.finalpath = <<>> \/ st.finaldist > st.seen[1][w] + st.seen[2][w])
    THEN [st EXCEPT !.finaldist = st.seen[1][w] + st.seen[2][w],
                    !.finalpath = st.paths[1][w] \o Tail(Reverse(st.paths[2][w]))]
    ELSE st

\* The body of `for w, d in neighs[dir][v].items()`.
bidirectional_edge(st, dir, v, w, vwLength) ==
    IF w \in DOMAIN st.dists[dir]
    THEN IF vwLength < st.dists[dir][w] THEN [st EXCEPT !.exc = "ValueError"] ELSE st
    ELSE IF w \notin DOMAIN st.seen[dir] \/ vwLength < st.seen[dir][w]
    THEN bidirectional_meet(
             [st EXCEPT !.seen[dir] = Put(@, w, vwLength),
                        !.fringe[dir] = Append(@, <<vwLength, st.c, w>>),
                        !.c = @ + 1,
                        !.paths[dir] = Put(@, w, Append(st.paths[dir][v], w))],
             w)
    ELSE st

RECURSIVE bidirectional_relax(_, _, _, _, _)
bidirectional_relax(G, dir, v, nbrs, st) ==
    IF st.exc # "none" \/ nbrs = <<>> THEN st
    ELSE bidirectional_relax(G, dir, v, Tail(nbrs),
             bidirectional_edge(st, dir, v, Head(nbrs),
                                st.dists[dir][v] + weight(G, v, Head(nbrs))))

RECURSIVE bidirectional_loop(_, _)

\* The body of the while loop once (dist, _, v) is popped from fringe[dir].
bidirectional_visit(G, st, dir, d, v) ==
    IF v \in DOMAIN st.dists[dir] THEN bidirectional_loop(G, st)
    ELSE IF v \in DOMAIN st.dists[3 - dir]
    THEN [st EXCEPT !.dists[dir] = Put(@, v, d), !.done = TRUE]
    ELSE bidirectional_loop(G,
             bidirectional_relax(G, dir, v, G.adj[v],
                                 [st EXCEPT !.dists[dir] = Put(@, v, d)]))

bidirectional_pop(G, st, dir, i) ==
    bidirectional_visit(G, [st EXCEPT !.dir = dir, !.fringe[dir] = Remove(@, i)],
                        dir, st.fringe[dir][i][1], st.fringe[dir][i][3])

bidirectional_loop(G, st) ==
    IF st.exc # "none" \/ st.done THEN st
    ELSE IF st.fringe[1] = <<>> \/ st.fringe[2] = <<>>
    THEN [st EXCEPT !.exc = "NetworkXNoPath"]
    ELSE bidirectional_pop(G, st, 3 - st.dir, PopMin(st.fringe[3 - st.dir]))

\* return (finaldist, finalpath).
bidirectional_return(st) ==
    IF st.exc # "none" THEN Raise(st.exc) ELSE Ok(<<st.finaldist, st.finalpath>>)

bidirectional_dijkstra(G, source, target) ==
    IF ~has_node(G, source) \/ ~has_node(G, target) THEN Raise("NodeNotFound")
    ELSE IF source = target THEN Ok(<<0, <<source>> >>)
    ELSE bidirectional_return(
             bidirectional_loop(G,
                 [exc |-> "none", done |-> FALSE, dir |-> 2,
                  dists |-> <<EmptyFn, EmptyFn>>,
                  paths |-> <<(source :> <<source>>), (target :> <<target>>)>>,
                  fringe |-> << << <<0, 0, source>> >>, << <<0, 1, target>> >> >>,
                  seen |-> <<(source :> 0), (target :> 0)>>,
                  c |-> 2, finaldist |-> 0, finalpath |-> <<>>]))

----------------------------------------------------------------------------
(* nx.astar_path with the heuristic of PathFinder._find_path_astar.        *)

\* math.sqrt on the perfect squares the room centers of the model produce.
math_sqrt(n) == CHOOSE r \in 0..n : r * r = n

\* math.sqrt((pos_u['x'] - pos_v['x'])**2 + (pos_u['y'] - pos_v['y'])**2).
euclidean(pos_u, pos_v) ==
    math_sqrt((pos_u.x - pos_v.x) * (pos_u.x - pos_v.x)
              + (pos_u.y - pos_v.y) * (pos_u.y - pos_v.y))

heuristic(G, u, v) ==
    IF ~has_node(G, u) \/ ~has_node(G, v) THEN 0
    ELSE euclidean(get(G.attr[u], "center", [x |-> 0, y |-> 0]),
                   get(G.attr[v], "center", [x |-> 0, y |-> 0]))

None == "None"

\* The queue holds tuples <<priority, counter, node, cost, parent>>.
\* The push at the end of the loop over the neighbours of curnode.
astar_push(st, curnode, neighbor, ncost, h) ==
    [st EXCEPT !.enqueued = Put(@, neighbor, <<ncost, h>>),
               !.queue = Append(@, <<ncost + h, st.c, neighbor, ncost, curnode>>),
               !.c = @ + 1]

\* The body of `for neighbor, w in G_succ[curnode].items()`.
astar_edge(G, target, st, curnode, neighbor, ncost) ==
    IF neighbor \in DOMAIN st.enqueued
    THEN IF st.enqueued[neighbor][1] <= ncost THEN st
         ELSE astar_push(st, curnode, neighbor, ncost, st.enqueued[neighbor][2])
    ELSE astar_push(st, curnode, neighbor, ncost, heuristic(G, neighbor, target))

RECURSIVE astar_expand(_, _, _, _, _, _)
astar_expand(G, target, curnode, dist, nbrs, st) ==
    IF nbrs = <<>> THEN st
    ELSE astar_expand(G, target, curnode, dist, Tail(nbrs),
             astar_edge(G, target, st, curnode, Head(nbrs),
                        dist + weight(G, curnode, Head(nbrs))))

\* The walk back along explored[]: the path, or "diverges" when the
\* parents form a cycle and the walk never reaches None.
RECURSIVE astar_walk(_, _, _, _)
astar_walk(explored, node, path, fuel) ==
    IF node = None THEN Ok(Reverse(path))
    ELSE IF fuel = 0 THEN Raise("diverges")
    ELSE astar_walk(explored, explored[node], Append(path, node), fuel - 1)

RECURSIVE astar_loop(_, _, _, _)

\* The body of `while queue` once (_, __, curnode, dist, parent) is popped.
astar_visit(G, target, st, fuel, curnode, dist, parent) ==
    IF curnode = target
    THEN astar_walk(st.explored, parent, <<curnode>>, Len(G.order))
    ELSE IF /\ curnode \in DOMAIN st.explored
            /\ \/ st.explored[curnode] = None
               \/ st.enqueued[curnode][1] < dist
    THEN astar_loop(G, target, st, fuel - 1)
    ELSE astar_loop(G, target,
             astar_expand(G, target, curnode, dist, G.adj[curnode],
                          [st EXCEPT !.explored = Put(@, curnode, parent)]),
             fuel - 1)

astar_pop(G, target, st, fuel, i) ==
    astar_visit(G, target, [st EXCEPT !.queue = Remove(@, i)], fuel,
                st.queue[i][3], st.queue[i][4], st.queue[i][5])

\* `fuel` is the number of queue pops left before the search is taken not
\* to terminate.
astar_loop(G, target, st, fuel) ==
    IF st.queue = <<>> THEN Raise("NetworkXNoPath")
    ELSE IF fuel = 0 THEN Raise("diverges")
    ELSE astar_pop(G, target, st, fuel, PopMin(st.queue))

astar_path(G, source, target) ==
    IF ~has_node(G, source) \/ ~has_node(G, target) THEN Raise("NodeNotFound")
    ELSE astar_loop(G, target,
             [queue |-> << <<0, 0, source, 0, None>> >>, c |-> 1,
              enqueued |-> EmptyFn, explored |-> EmptyFn],
             AstarFuel)

\* sum(weight(u, v) for u, v in zip(path[:-1], path[1:])).
path_weight(G, path) ==
    SumSeq([i \in 1..(Len(path) - 1) |-> weight(G, path[i], path[i + 1])])

\* The weight of the path r that astar_path returned.
astar_weight(G, r) == IF r.exc # "none" THEN r ELSE Ok(path_weight(G, r.val))

\* nx.astar_path_length: the weight of the path astar_path returns.
astar_path_length(G, source, target) == astar_weight(G, astar_path(G, source, target))

----------------------------------------------------------------------------
(* nx.bidirectional_shortest_path: what nx.shortest_path(G, s, t) runs     *)
(* without a weight.  Breadth-first from both ends, the smaller fringe     *)
(* first.                                                                  *)

\* `if w in succ` (forward) or `if w in pred` (reverse): the searches meet
\* at w.
pred_succ_meet(st, fwd, w) ==
    IF (fwd /\ w \in DOMAIN st.succ) \/ (~fwd /\ w \in DOMAIN st.pred)
    THEN [st EXCEPT !.found = w]
    ELSE st

\* The body of `for w in adj[v]`.
pred_succ_edge(st, fwd, v, w) ==
    IF fwd
    THEN IF w \notin DOMAIN st.pred
         THEN pred_succ_meet([st EXCEPT !.forward_fringe = Append(@, w),
                                        !.pred = Put(@, w, v)], fwd, w)
         ELSE pred_succ_meet(st, fwd, w)
    ELSE IF w \notin DOMAIN st.succ
         THEN pred_succ_meet([st EXCEPT !.reverse_fringe = Append(@, w),
                                        !.succ = Put(@, w, v)], fwd, w)
         ELSE pred_succ_meet(st, fwd, w)

\* One level: for v in this_level: for w in adj[v].  `fwd` tells the
\* direction; the result has found = the meeting node once a path is found.
RECURSIVE pred_succ_level(_, _, _, _, _)
pred_succ_level(G, fwd, this_level, nbrs, st) ==
    IF st.found # None THEN st
    ELSE IF nbrs = <<>>
    THEN IF Len(this_level) <= 1 THEN st
         ELSE pred_succ_level(G, fwd, Tail(this_level), G.adj[this_level[2]], st)
    ELSE pred_succ_level(G, fwd, this_level, Tail(nbrs),
             pred_succ_edge(st, fwd, Head(this_level), Head(nbrs)))

RECURSIVE bidirectional_pred_succ(_, _)
bidirectional_pred_succ(G, st) ==
    IF st.found # None THEN st
    ELSE IF st.forward_fringe = <<>> \/ st.reverse_fringe = <<>> THEN st
    ELSE IF Len(st.forward_fringe) <= Len(st.reverse_fringe)
    THEN bidirectional_pred_succ(G,
             pred_succ_level(G, TRUE, st.forward_fringe, G.adj[st.forward_fringe[1]],
                             [st EXCEPT !.forward_fringe = <<>>]))
    ELSE bidirectional_pred_succ(G,
             pred_succ_level(G, FALSE, st.reverse_fringe, G.adj[st.reverse_fringe[1]],
                             [st EXCEPT !.reverse_fringe = <<>>]))

\* Follows a parent map from w to None: w, f[w], f[f[w]], ...
RECURSIVE chain(_, _)
chain(f, w) == IF w = None THEN <<>> ELSE <<w>> \o chain(f, f[w])

\* The path through the meeting node, or NetworkXNoPath.
pred_succ_path(st) ==
    IF st.found = None THEN Raise("NetworkXNoPath")
    ELSE Ok(Reverse(chain(st.pred, st.found)) \o Tail(chain(st.succ, st.found)))

bidirectional_shortest_path(G, source, target) ==
    IF ~has_node(G, source) \/ ~has_node(G, target) THEN Raise("NodeNotFound")
    ELSE IF target = source THEN Ok(<<source>>)
    ELSE pred_succ_path(
             bidirectional_pred_succ(G,
                 [pred |-> (source :> None), succ |-> (target :> None),
                  forward_fringe |-> <<source>>, reverse_fringe |-> <<target>>,
                  found |-> None]))

----------------------------------------------------------------------------
(* nx.all_simple_paths(G, source, target, cutoff): depth-first in          *)
(* neighbour order, a path is not extended past the target nor past        *)
(* `cutoff` edges.                                                         *)

RECURSIVE simple_paths_from(_, _, _, _, _)

\* The paths that go on from `path` through its neighbour w.
simple_paths_through(G, target, cutoff, path, w) ==
    IF w \in Range(path) THEN <<>>
    ELSE IF w = target THEN <<Append(path, w)>>
    ELSE IF Len(path) < cutoff
    THEN simple_paths_from(G, target, cutoff, Append(path, w), G.adj[w])
    ELSE <<>>

simple_paths_from(G, target, cutoff, path, nbrs) ==
    IF nbrs = <<>> THEN <<>>
    ELSE simple_paths_through(G, target, cutoff, path, Head(nbrs))
         \o simple_paths_from(G, target, cutoff, path, Tail(nbrs))

\* `singleton` is the library version's answer for source = target: newer
\* releases yield the one-node path, older ones yield nothing.
all_simple_paths(G, source, target, cutoff, singleton) ==
    IF ~has_node(G, source) \/ ~has_node(G, target) THEN Raise("NodeNotFound")
    ELSE IF source = target THEN Ok(IF singleton THEN << <<source>> >> ELSE <<>>)
    ELSE Ok(simple_paths_from(G, target, cutoff, <<source>>, G.adj[source]))

\* list.sort(key=len): a stable sort, here by insertion.
RECURSIVE insert_by_len(_, _)
insert_by_len(sorted, p) ==
    IF sorted = <<>> THEN <<p>>
    ELSE IF Len(Head(sorted)) <= Len(p)
    THEN <<Head(sorted)>> \o insert_by_len(Tail(sorted), p)
    ELSE <<p>> \o sorted

\* Mutant of sort_by_len: the paths stay in the order of the search.
sort_by_len_none(paths) == paths

RECURSIVE sort_by_len(_)
sort_by_len(paths) ==
    IF paths = <<>> THEN <<>>
    ELSE insert_by_len(sort_by_len(SubSeq(paths, 1, Len(paths) - 1)), paths[Len(paths)])

----------------------------------------------------------------------------
(* PathFinder (src/backend/pathfinder.py).                                 *)

\* The path of the pair (length, path) bidirectional_dijkstra returns.
path_of(r) == IF r.exc # "none" THEN r ELSE Ok(r.val[2])

\* nx.shortest_path(G, s, t, weight=...) for endpoints in the graph.
shortest_path(G, source, target, weighted) ==
    IF weighted
    THEN path_of(bidirectional_dijkstra(G, source, target))
    ELSE bidirectional_shortest_path(G, source, target)

\* nx.shortest_path_length(G, s, t, weight="weight").
shortest_path_length(G, source, target) == dijkstra_path_length(G, source, target)

Success(path, distance) == [success |-> TRUE, path |-> path, distance |-> distance]

Failure(error) == [success |-> FALSE, error |-> error, path |-> <<>>, distance |-> 0]

\* The return of _find_path_dijkstra and of _find_path_astar: the first
\* library call that raises ends the method, else the dict is built.
path_result(path, distance) ==
    IF path.exc # "none" THEN path
    ELSE IF distance.exc # "none" THEN distance
    ELSE Ok(Success(path.val, distance.val))

find_path_dijkstra(G, start_room, end_room) ==
    path_result(shortest_path(G, start_room, end_room, TRUE),
                shortest_path_length(G, start_room, end_room))

find_path_astar(G, start_room, end_room) ==
    path_result(astar_path(G, start_room, end_room),
                astar_path_length(G, start_room, end_room))

\* The return of _find_path_bfs: the distance is len(path) - 1.
bfs_result(path) ==
    IF path.exc # "none" THEN path ELSE Ok(Success(path.val, Len(path.val) - 1))

\* Mutant of find_path_bfs: the search is the weighted one.
find_path_bfs_weighted(G, start_room, end_room) ==
    bfs_result(shortest_path(G, start_room, end_room, TRUE))

find_path_bfs(G, start_room, end_room) ==
    bfs_result(shortest_path(G, start_room, end_room, FALSE))

\* Mutant of find_path_dispatch: an unknown algorithm name falls back to
\* the default algorithm.
find_path_dispatch_default(G, start_room, end_room, algorithm) ==
    IF algorithm = "astar" THEN find_path_astar(G, start_room, end_room)
    ELSE IF algorithm = "bfs" THEN find_path_bfs(G, start_room, end_room)
    ELSE find_path_dijkstra(G, start_room, end_room)

\* The dispatch of find_path, before its except clauses.
find_path_dispatch(G, start_room, end_room, algorithm) ==
    IF algorithm = "dijkstra" THEN find_path_dijkstra(G, start_room, end_room)
    ELSE IF algorithm = "astar" THEN find_path_astar(G, start_room, end_room)
    ELSE IF algorithm = "bfs" THEN find_path_bfs(G, start_room, end_room)
    ELSE Ok(Failure(<<"Unknown algorithm: ", algorithm>>))

\* Mutant of find_path_except: NetworkXNoPath has no clause of its own and
\* falls to the clause for Exception.
find_path_except_generic(r, start_room, end_room) ==
    IF r.exc = "none" THEN r
    ELSE IF r.exc = "diverges" THEN r
    ELSE Ok(Failure(<<"Pathfinding error: ", r.exc>>))

\* Mutant of find_path_except: NetworkXNoPath alone is caught.
find_path_except_no_path_only(r, start_room, end_room) ==
    IF r.exc = "NetworkXNoPath"
    THEN Ok(Failure(<<"No path found between ", start_room, " and ", end_room>>))
    ELSE r

\* The except clauses of find_path, r being the outcome of the dispatch.
\* An error message is the tuple of the parts of its f-string, str(e) being
\* given by the name of the exception; a call that does not return has the
\* outcome "diverges".
find_path_except(r, start_room, end_room) ==
    IF r.exc = "none" THEN r
    ELSE IF r.exc = "NetworkXNoPath"
    THEN Ok(Failure(<<"No path found between ", start_room, " and ", end_room>>))
    ELSE IF r.exc = "diverges" THEN r
    ELSE Ok(Failure(<<"Pathfinding error: ", r.exc>>))

find_path_try(G, start_room, end_room, algorithm) ==
    find_path_except(find_path_dispatch(G, start_room, end_room, algorithm),
                     start_room, end_room)

\* Mutant of find_path: no short-circuit for start_room = end_room.
find_path_no_shortcut(G, start_room, end_room, algorithm) ==
    IF ~has_node(G, start_room)
    THEN Ok(Failure(<<"Starting room ", start_room, " not found">>))
    ELSE IF ~has_node(G, end_room)
    THEN Ok(Failure(<<"Destination room ", end_room, " not found">>))
    ELSE find_path_try(G, start_room, end_room, algorithm)

\* Mutant of find_path: the destination is checked before the start.
find_path_end_first(G, start_room, end_room, algorithm) ==
    IF ~has_node(G, end_room)
    THEN Ok(Failure(<<"Destination room ", end_room, " not found">>))
    ELSE IF ~has_node(G, start_room)
    THEN Ok(Failure(<<"Starting room ", start_room, " not found">>))
    ELSE IF start_room = end_room
    THEN Ok(Success(<<start_room>>, 0))
    ELSE find_path_try(G, start_room, end_room, algorithm)

find_path(G, start_room, end_room, algorithm) ==
    IF ~has_node(G, start_room)
    THEN Ok(Failure(<<"Starting room ", start_room, " not found">>))
    ELSE IF ~has_node(G, end_room)
    THEN Ok(Failure(<<"Destination room ", end_room, " not found">>))
    ELSE IF start_room = end_room
    THEN Ok(Success(<<start_room>>, 0))
    ELSE find_path_try(G, start_room, end_room, algorithm)

RECURSIVE calculate_path_distance_from(_, _, _)
calculate_path_distance_from(G, path, i) ==
    IF i > Len(path) - 1 THEN 0
    ELSE (IF has_edge(G, path[i], path[i + 1])
          THEN get(G.data[<<path[i], path[i + 1]>>], "weight", 1)
          ELSE 0)
         + calculate_path_distance_from(G, path, i + 1)

calculate_path_distance(G, path) ==
    IF Len(path) < 2 THEN 0 ELSE calculate_path_distance_from(G, path, 1)

\* all_paths[:max_paths].
take(paths, n) == SubSeq(paths, 1, IF n < Len(paths) THEN n ELSE Len(paths))

\* The list of result dicts built from top_paths.
path_results(G, top_paths) ==
    [i \in 1..Len(top_paths) |->
        [success |-> TRUE,
         path |-> top_paths[i],
         distance |-> calculate_path_distance(G, top_paths[i]),
         steps |-> Len(top_paths[i]) - 1]]

\* Mutant of all_paths_results: the list is cut to max_paths before it is
\* sorted.
all_paths_results_cut_first(G, all_paths, max_paths) ==
    IF all_paths.exc # "none" THEN Ok(<<>>)
    ELSE Ok(path_results(G, sort_by_len(take(all_paths.val, max_paths))))

\* The try block of find_all_paths once the simple paths are listed, and
\* its `except Exception: return []`.
all_paths_results(G, all_paths, max_paths) ==
    IF all_paths.exc # "none" THEN Ok(<<>>)
    ELSE Ok(path_results(G, take(sort_by_len(all_paths.val), max_paths)))

\* Mutant of find_all_paths: a missing endpoint is an error of the call.
find_all_paths_strict(G, start_room, end_room, max_paths, singleton) ==
    IF ~has_node(G, start_room) \/ ~has_node(G, end_room) THEN Raise("NodeNotFound")
    ELSE all_paths_results(G,
             all_simple_paths(G, start_room, end_room, Cutoff, singleton),
             max_paths)

find_all_paths(G, start_room, end_room, max_paths, singleton) ==
    IF ~has_node(G, start_room) \/ ~has_node(G, end_room) THEN Ok(<<>>)
    ELSE all_paths_results(G,
             all_simple_paths(G, start_room, end_room, Cutoff, singleton),
             max_paths)

\* The except clause of get_shortest_distance: NetworkXNoPath alone is
\* caught, every other exception leaves the method.
shortest_distance_except(r) == IF r.exc = "NetworkXNoPath" THEN Ok(-1) ELSE r

get_shortest_distance(G, start_room, end_room) ==
    shortest_distance_except(shortest_path_length(G, start_room, end_room))

\* list(self.graph.neighbors(room_id)), or [] for a room that is no node.
get_room_neighbors(G, room_id) == IF ~has_node(G, room_id) THEN <<>> ELSE G.adj[room_id]

\* PathFinder.is_connected: the two rooms are joined by an edge.
is_connected(G, room1, room2) == has_edge(G, room1, room2)

\* Graph.number_of_nodes().
number_of_nodes(G) == Len(G.order)

\* Graph.number_of_edges(): an edge is in the data of both its directions,
\* a self-loop in one.
number_of_edges(G) ==
    (Cardinality(DOMAIN G.data) + Cardinality({p \in DOMAIN G.data : p[1] = p[2]})) \div 2

\* _plain_bfs: the nodes reached from those of `seen`.
RECURSIVE plain_bfs(_, _)
plain_bfs(G, seen) ==
    IF \A v \in seen : Range(G.adj[v]) \subseteq seen THEN seen
    ELSE plain_bfs(G, seen \cup UNION {Range(G.adj[v]) : v \in seen})

\* nx.is_connected: the search from the first node reaches every node; the
\* graph without nodes raises.
nx_is_connected(G) ==
    IF Len(G.order) = 0 THEN Raise("NetworkXPointlessConcept")
    ELSE Ok(Cardinality(plain_bfs(G, {G.order[1]})) = Len(G.order))

RECURSIVE GCD(_, _)
GCD(a, b) == IF b = 0 THEN a ELSE GCD(b, a % b)

\* The number n / d, d > 0, in lowest terms.
Frac(n, d) == [num |-> n \div GCD(n, d), den |-> d \div GCD(n, d)]

FracAdd(p, q) == Frac(p.num * q.den + q.num * p.den, p.den * q.den)

\* Mutant of density: the edges over the ordered pairs of nodes.
density_directed(n, m) ==
    IF m = 0 \/ n <= 1 THEN Frac(0, 1) ELSE Frac(m, n * (n - 1))

\* nx.density of a graph of n nodes and m edges: 0 without an edge or with
\* one node at most, else 2 * m / (n * (n - 1)).
density(n, m) ==
    IF m = 0 \/ n <= 1 THEN Frac(0, 1) ELSE Frac(2 * m, n * (n - 1))

\* The neighbours of v other than v.
neighbours(G, v) == Range(G.adj[v]) \ {v}

\* Twice the triangles at v, as _triangles_and_degree_iter counts them.
triangles(G, vs) ==
    LET count[S \in SUBSET vs] ==
            IF S = {} THEN 0
            ELSE Cardinality(vs \cap neighbours(G, CHOOSE w \in S : TRUE))
                     + count[S \ {CHOOSE w \in S : TRUE}]
    IN count[vs]

\* nx.clustering of a node of degree d with t (doubled) triangles.
clustering_of(t, d) == IF t = 0 THEN Frac(0, 1) ELSE Frac(t, d * (d - 1))

clustering(G, v) ==
    clustering_of(triangles(G, neighbours(G, v)), Cardinality(neighbours(G, v)))

RECURSIVE sum_clustering(_, _)
sum_clustering(G, nodes) ==
    IF nodes = <<>> THEN Frac(0, 1)
    ELSE FracAdd(clustering(G, Head(nodes)), sum_clustering(G, Tail(nodes)))

\* sum(c) / len(c) of a sum s over n > 0 nodes.
average(s, n) == Frac(s.num, s.den * n)

\* nx.average_clustering; the graph without nodes divides by zero.
average_clustering(G) ==
    IF Len(G.order) = 0 THEN Raise("ZeroDivisionError")
    ELSE Ok(average(sum_clustering(G, G.order), Len(G.order)))

\* The dict of get_graph_info and of get_graph_stats, its values computed
\* in the order of the keys: the first call that raises ends the method.
graph_info(nodes, edges, connected, clust) ==
    IF connected.exc # "none" THEN connected
    ELSE IF clust.exc # "none" THEN clust
    ELSE Ok([nodes |-> nodes,
             edges |-> edges,
             is_connected |-> connected.val,
             density |-> density(nodes, edges),
             average_clustering |-> clust.val])

get_graph_info(G) ==
    graph_info(number_of_nodes(G), number_of_edges(G), nx_is_connected(G),
               average_clustering(G))

----------------------------------------------------------------------------
(* The graphs a PathFinder is constructed with: built as                   *)
(* GraphBuilder.build_graph of src/backend/src/graph_builder.py builds     *)
(* them, the nodes of the floor plan first, then its edges in order.       *)

\* Room centers of the floor plan; every distance between two of them, and
\* from each to the origin, is a whole number.
Center ==
    ("A" :> [x |-> 0, y |-> 0]) @@ ("B" :> [x |-> 3, y |-> 0]) @@
    ("C" :> [x |-> 0, y |-> 4]) @@ ("D" :> [x |-> 3, y |-> 4])

\* The candidate edges of a floor plan, in the order its edge list has them.
Pairs == << <<"A", "B">>, <<"A", "C">>, <<"A", "D">>,
            <<"B", "C">>, <<"B", "D">>, <<"C", "D">> >>

\* The node dicts of the floor plans: no nodes (the graph is made of edges
\* alone, as in the sample of pathfinder.py), or rooms A, B and C with their
\* centers (room D is then a node only as the endpoint of an edge, and has
\* no center).
NodeLists == {<<>>, <<"A", "B", "C">>}

RECURSIVE add_nodes(_, _)
add_nodes(G, ids) ==
    IF ids = <<>> THEN G
    ELSE add_nodes(add_node(G, Head(ids), ("center" :> Center[Head(ids)])), Tail(ids))

\* The graphs got from G by adding at most n of the pairs from the i-th on,
\* each with a weight of W.
RECURSIVE add_edges(_, _, _, _)
add_edges(G, i, n, W) ==
    IF i > Len(Pairs) THEN {G}
    ELSE add_edges(G, i + 1, n, W)
         \cup (IF n = 0 THEN {}
               ELSE UNION {add_edges(add_edge(G, Pairs[i][1], Pairs[i][2], ("weight" :> w)),
                                     i + 1, n - 1, W) : w \in W})

build_graph(ids, W) == add_edges(add_nodes(EmptyGraph, ids), 1, MaxEdges, W)

\* Floor plans longer than the cutoff of find_all_paths: Cutoff + 2 rooms in
\* a row, each joined to the next by an edge of weight 1.
LoopIds == <<"A", "B", "C", "D", "E", "F", "G", "H", "I", "J", "K", "L">>

\* The edges from the i-th room to the next, up to the n-th room; the last
\* room's next is the first.
RECURSIVE add_loop(_, _, _)
add_loop(G, i, n) ==
    IF i > n THEN G
    ELSE add_loop(add_edge(G, LoopIds[i], LoopIds[(i % (Cutoff + 2)) + 1], ("weight" :> 1)),
                  i + 1, n)

\* The loop, and the loop with one more edge of weight 0 across it.
add_chords(loop) ==
    {loop} \cup {add_edge(loop, LoopIds[1], LoopIds[j], ("weight" :> 0)) :
                    j \in 3..(Cutoff + 1)}

\* The closed loops, and the open row (the loop without its closing edge).
build_loop ==
    add_chords(add_loop(EmptyGraph, 1, Cutoff + 2))
        \cup {add_loop(EmptyGraph, 1, Cutoff + 1)}

\* The test graph of pathfinder.py.
sample_graph ==
    add_edge(add_edge(add_edge(add_edge(EmptyGraph,
        "A", "B", ("weight" :> 1)),
        "B", "C", ("weight" :> 2)),
        "C", "D", ("weight" :> 1)),
        "A", "D", ("weight" :> 4))

----------------------------------------------------------------------------
(* JohnsonPathfinder (src/backend/src/johnson_pathfinder.py).  It works on *)
(* the graph object its caller holds.                                      *)

Restrict(f, S) == [x \in S |-> f[x]]

Without(seq, n) == SelectSeq(seq, LAMBDA x : x # n)

\* Graph.remove_node(n): the node, and every edge at it.
remove_node(G, n) ==
    [order |-> Without(G.order, n),
     attr |-> Restrict(G.attr, DOMAIN G.attr \ {n}),
     adj |-> [m \in DOMAIN G.adj \ {n} |-> Without(G.adj[m], n)],
     data |-> Restrict(G.data, {p \in DOMAIN G.data : p[1] # n /\ p[2] # n})]

\* for node in self.graph.nodes: if node != 'source': add_edge('source', node, weight=0).
RECURSIVE add_source_edges(_, _)
add_source_edges(G, nodes) ==
    IF nodes = <<>> THEN G
    ELSE IF Head(nodes) = "source" THEN add_source_edges(G, Tail(nodes))
    ELSE add_source_edges(add_edge(G, "source", Head(nodes), ("weight" :> 0)), Tail(nodes))

\* Steps 1 and 2, the graph self.graph.add_node('source') leaves being G.
connect_source(G) == add_source_edges(G, G.order)

add_source(G) == connect_source(add_node(G, "source", EmptyFn))

MinOf(S) == CHOOSE m \in S : \A x \in S : m <= x

\* Bellman-Ford: the distances after one more round of relaxing every edge,
\* in both directions, from the distances `dist` of the nodes reached.
relaxed(G, dist, v) ==
    (IF v \in DOMAIN dist THEN {dist[v]} ELSE {})
        \cup {dist[u] + weight(G, u, v) : u \in {x \in DOMAIN dist : has_edge(G, x, v)}}

\* The new distance of v, the least of the candidates, if there is one.
relax_node(acc, v, candidates) ==
    IF candidates = {} THEN acc ELSE Put(acc, v, MinOf(candidates))

RECURSIVE relax_nodes(_, _, _, _)
relax_nodes(G, dist, nodes, acc) ==
    IF nodes = <<>> THEN acc
    ELSE relax_nodes(G, dist, Tail(nodes),
                     relax_node(acc, Head(nodes), relaxed(G, dist, Head(nodes))))

bellman_ford_round(G, dist) == relax_nodes(G, dist, G.order, dist)

RECURSIVE bellman_ford_rounds(_, _, _)
bellman_ford_rounds(G, dist, k) ==
    IF k = 0 THEN dist ELSE bellman_ford_rounds(G, bellman_ford_round(G, dist), k - 1)

\* Mutant of bellman_ford_result: a negative cycle is not looked for.
bellman_ford_result_unchecked(G, dist) == Ok(dist)

\* A distance that still improves after |V| - 1 rounds lies on a negative
\* cycle: NetworkXUnbounded.
bellman_ford_result(G, dist) ==
    IF bellman_ford_round(G, dist) # dist THEN Raise("NetworkXUnbounded") ELSE Ok(dist)

\* nx.single_source_bellman_ford_path_length(G, source).
single_source_bellman_ford_path_length(G, source) ==
    IF ~has_node(G, source) THEN Raise("NodeNotFound")
    ELSE bellman_ford_result(G,
             bellman_ford_rounds(G, (source :> 0), Len(G.order) - 1))

\* Graph.edges(data=True): every edge once, from the endpoint met first in
\* node order to its neighbours not met before.
node_edges(n, nbrs) == [i \in 1..Len(nbrs) |-> <<n, nbrs[i]>>]

RECURSIVE edges(_, _, _)
edges(G, nodes, seen) ==
    IF nodes = <<>> THEN <<>>
    ELSE node_edges(Head(nodes), SelectSeq(G.adj[Head(nodes)], LAMBDA x : x \notin seen))
         \o edges(G, Tail(nodes), seen \cup {Head(nodes)})

\* Mutant of set_weight: the weight written is one more than w.
set_weight_drifting(G, u, v, w) ==
    [G EXCEPT !.data[<<u, v>>] = Put(@, "weight", w + 1),
              !.data[<<v, u>>] = Put(G.data[<<u, v>>], "weight", w + 1)]

\* data['weight'] = w, data being the one dict of the edge u-v.
set_weight(G, u, v, w) ==
    [G EXCEPT !.data[<<u, v>>] = Put(@, "weight", w),
              !.data[<<v, u>>] = Put(G.data[<<u, v>>], "weight", w)]

\* Step 4: data['weight'] += h[u] - h[v] for every edge.
RECURSIVE reweight(_, _, _)
reweight(G, h, es) ==
    IF es = <<>> THEN G
    ELSE reweight(set_weight(G, Head(es)[1], Head(es)[2],
                             G.data[Head(es)]["weight"] + h[Head(es)[1]] - h[Head(es)[2]]),
                  h, Tail(es))

\* Mutant of johnson_dijkstra: the path is the one with the fewest edges.
johnson_dijkstra_unweighted(G, start_room, end_room) ==
    path_result(shortest_path(G, start_room, end_room, FALSE),
                shortest_path_length(G, start_room, end_room))

\* Step 6, the try block.
johnson_dijkstra(G, start_room, end_room) ==
    path_result(shortest_path(G, start_room, end_room, TRUE),
                shortest_path_length(G, start_room, end_room))

\* Step 6, the except clause: NetworkXNoPath alone is caught.
johnson_except(r, start_room, end_room) ==
    IF r.exc = "NetworkXNoPath"
    THEN Ok(Failure(<<"No path found between ", start_room, " and ", end_room>>))
    ELSE r

\* Mutant of johnson_remove_source: the source node stays.
johnson_remove_source_none(G) == G

\* Step 5.
johnson_remove_source(G) == remove_node(G, "source")

NegativeCycle == "ValueError: Graph contains a negative-weight cycle"

\* Steps 5 and 6 on the reweighted graph G.  The outcome of a call is the
\* graph it leaves, its return value or exception, and its potentials h.
johnson_search(G, h, start_room, end_room) ==
    [graph |-> G,
     h |-> h,
     ret |-> johnson_except(johnson_dijkstra(G, start_room, end_room),
                            start_room, end_room)]

\* Steps 3 to 6 on the graph G with the source, h being the outcome of
\* Bellman-Ford: NetworkXUnbounded becomes the ValueError, raised at once.
johnson_reweight(G, h, start_room, end_room) ==
    IF h.exc = "NetworkXUnbounded"
    THEN [graph |-> G, h |-> EmptyFn, ret |-> Raise(NegativeCycle)]
    ELSE IF h.exc # "none"
    THEN [graph |-> G, h |-> EmptyFn, ret |-> Raise(h.exc)]
    ELSE johnson_search(johnson_remove_source(reweight(G, h.val, edges(G, G.order, {}))),
                        h.val, start_room, end_room)

johnson_bellman_ford(G, start_room, end_room) ==
    johnson_reweight(G, single_source_bellman_ford_path_length(G, "source"),
                     start_room, end_room)

find_shortest_path(G, start_room, end_room) ==
    johnson_bellman_ford(add_source(G), start_room, end_room)

----------------------------------------------------------------------------
(* GraphBuilder of src/backend/graph_builder.py: the graph of a floor plan *)
(* given as a dict of rooms and doors.                                     *)

\* math.sqrt(dx*dx + dy*dy).
hypot(dx, dy) == math_sqrt(dx * dx + dy * dy)

\* _calculate_distance.
calculate_distance(pos1, pos2) == hypot(pos1.x - pos2.x, pos1.y - pos2.y)

\* The keyword arguments of add_node in _add_room_nodes.
room_attr(room) ==
    [type |-> "room", name |-> room.name, center |-> room.center, bounds |-> room.bounds]

RECURSIVE add_rooms(_, _)
add_rooms(G, rooms) ==
    IF rooms = <<>> THEN G
    ELSE add_rooms(add_node(G, Head(rooms).id, room_attr(Head(rooms))), Tail(rooms))

add_room_nodes(G, data) ==
    IF "rooms" \notin DOMAIN data THEN G ELSE add_rooms(G, data.rooms)

\* The keyword arguments of add_edge in _add_door_connections.
door_attr(door, distance) ==
    [type |-> "door", weight |-> distance, door_id |-> door.id, position |-> door.position]

\* A door that adds an edge for its first two ids whenever it has two or
\* more.
add_door_first_two(G, door) ==
    IF "connects" \in DOMAIN door /\ Len(door.connects) >= 2
    THEN add_edge(G, door.connects[1], door.connects[2],
                  door_attr(door, calculate_distance(door.position, door.position)))
    ELSE G

\* The body of the loop over the doors: the distance is that of the door
\* position to itself.
add_door(G, door) ==
    IF "connects" \in DOMAIN door /\ Len(door.connects) = 2
    THEN add_edge(G, door.connects[1], door.connects[2],
                  door_attr(door, calculate_distance(door.position, door.position)))
    ELSE G

RECURSIVE add_doors(_, _)
add_doors(G, doors) ==
    IF doors = <<>> THEN G ELSE add_doors(add_door(G, Head(doors)), Tail(doors))

add_door_connections(G, data) ==
    IF "doors" \notin DOMAIN data THEN G ELSE add_doors(G, data.doors)

\* Centers closer than this get a corridor.
CorridorThreshold == 200

\* distance * 1.2; the product is a whole number for the distances of the
\* model (150 * 1.2 is 180.0 in floating point, 0 * 1.2 is 0.0).
corridor_weight(distance) == (distance * 12) \div 10

\* The keyword arguments of add_edge in _add_corridor_connections.
corridor_attr(distance) ==
    [type |-> "corridor", weight |-> corridor_weight(distance), position |-> None]

\* A corridor for centers at the threshold too.
add_corridor_if_close_or_at(G, room1, room2, distance) ==
    IF distance <= CorridorThreshold
    THEN add_edge(G, room1.id, room2.id, corridor_attr(distance))
    ELSE G

add_corridor_if_close(G, room1, room2, distance) ==
    IF distance < CorridorThreshold
    THEN add_edge(G, room1.id, room2.id, corridor_attr(distance))
    ELSE G

\* A corridor pass that does not look for an existing edge.
add_corridor_always(G, room1, room2) ==
    add_corridor_if_close(G, room1, room2, calculate_distance(room1.center, room2.center))

\* The body of the inner loop.
add_corridor(G, room1, room2) ==
    IF has_edge(G, room1.id, room2.id) THEN G
    ELSE add_corridor_if_close(G, room1, room2,
                               calculate_distance(room1.center, room2.center))

\* for room2 in rooms[i+1:], rest being rooms[i+1:].
RECURSIVE add_corridors_from(_, _, _)
add_corridors_from(G, room1, rest) ==
    IF rest = <<>> THEN G
    ELSE add_corridors_from(add_corridor(G, room1, Head(rest)), room1, Tail(rest))

\* for i, room1 in enumerate(rooms).
RECURSIVE add_corridors(_, _)
add_corridors(G, rooms) ==
    IF rooms = <<>> THEN G
    ELSE add_corridors(add_corridors_from(G, Head(rooms), Tail(rooms)), Tail(rooms))

add_corridor_connections(G, data) ==
    IF "rooms" \notin DOMAIN data THEN G ELSE add_corridors(G, data.rooms)

\* Graph.clear().
clear(G) == EmptyGraph

\* build_graph returns self.graph.
built(G) == [graph |-> G, ret |-> Ok(G)]

\* GraphBuilder.build_graph on the builder's graph G: the graph afterwards
\* and the value returned or the exception raised.  `not self.floor_data`
\* holds of None and of the empty dict.
GraphBuilder_build_graph(G, data) ==
    IF data = EmptyFn
    THEN [graph |-> G, ret |-> Raise("ValueError: No floor data provided")]
    ELSE built(add_corridor_connections(
                   add_door_connections(add_room_nodes(clear(G), data), data), data))

get_connection_type(G, room1_id, room2_id) ==
    IF ~has_edge(G, room1_id, room2_id) THEN None
    ELSE get(G.data[<<room1_id, room2_id>>], "type", None)

(* The floor data of the model.  Rooms A and B have the centers of the two *)
(* rooms of the sample of graph_builder.py, (100,100) and (300,100), which *)
(* are 200 apart; room C, at (100,250), is 150 from A and 250 from B.      *)
FloorRoomIds == {"A", "B", "C"}

FloorCenter ==
    ("A" :> [x |-> 100, y |-> 100]) @@ ("B" :> [x |-> 300, y |-> 100]) @@
    ("C" :> [x |-> 100, y |-> 250])

\* A room dict, with the name and the bounds the sample gives a room.
Room(id, center) ==
    [id |-> id, name |-> <<"Room ", id>>, center |-> center,
     bounds |-> [x |-> center.x - 50, y |-> center.y - 50, width |-> 100, height |-> 100]]

\* The rooms a list is made of: each room at its center, and a second
\* record of room A that has the center of B.
Rooms == {Room(id, FloorCenter[id]) : id \in FloorRoomIds} \cup {Room("A", FloorCenter["B"])}

SeqsUpTo(S, n) == UNION {[1..k -> S] : k \in 0..n}

\* Room lists; an id may occur more than once.
RoomLists == SeqsUpTo(Rooms, MaxRooms)

\* The rooms doors lead to.
ConnectIds == {"A", "C"}

\* A connects list names any number of ids, equal ones and ids of no room
\* of the list included.
Connects == SeqsUpTo(ConnectIds, MaxConnects)

\* The first door is where the door of the sample is, at (200,100).
DoorPosition(i) == [x |-> 200, y |-> 100 * i]

\* The i-th door of a doors list, with or without a connects list.
Doors(i) ==
    {[id |-> <<"d", i>>, position |-> DoorPosition(i), connects |-> c] : c \in Connects}
        \cup {[id |-> <<"d", i>>, position |-> DoorPosition(i)]}

DoorsUpTo(k) == UNION {Doors(i) : i \in 1..k}

DoorLists ==
    UNION {{s \in [1..k -> DoorsUpTo(k)] : \A i \in 1..k : s[i] \in Doors(i)} : k \in 0..MaxDoors}

\* No floor data (None or {}), rooms and doors, rooms alone, doors alone.
FloorData ==
    {EmptyFn}
        \cup {[floor_id |-> "test_floor", rooms |-> r, doors |-> d] :
                  r \in RoomLists, d \in DoorLists}
        \cup {[floor_id |-> "test_floor", rooms |-> r] : r \in RoomLists}
        \cup {[floor_id |-> "test_floor", doors |-> d] : d \in DoorLists}

----------------------------------------------------------------------------
(* The state machine: a PathFinder on its graph, and the calls made on it. *)

Algorithms == {"dijkstra", "astar", "bfs", "dfs"}

\* No call is in progress: the PathFinder waits for the next request.
Idle == [op |-> "idle", args |-> <<>>, ret |-> Ok(<<>>)]

\* No call of find_shortest_path is in progress.
NotCalled == [pc |-> "idle", todo |-> <<>>, h |-> EmptyFn, before |-> EmptyGraph]

\* A PathFinder on a floor plan without negative weights.
Init ==
    /\ \/ \E ids \in NodeLists : graph \in build_graph(ids, NonNegWeights)
       \/ graph \in build_loop
       \/ graph = sample_graph
    /\ floor_data = EmptyFn
    /\ last = Idle
    /\ johnson = NotCalled

\* The room identifiers a request may name: those of the model, some of
\* which a graph may lack, and the nodes of the graph.
QueryIds == RoomIds \cup DOMAIN graph.adj

\* A PathFinder on a graph of edges whose weights may be negative.
InitSigned ==
    /\ graph \in build_graph(<<>>, SignedWeights)
    /\ floor_data = EmptyFn
    /\ last = Idle
    /\ johnson = NotCalled

FindPath ==
    \E start_room \in QueryIds, end_room \in QueryIds, algorithm \in Algorithms :
        /\ last.op = "idle"
        /\ last' = [op |-> "find_path",
                    args |-> <<start_room, end_room, algorithm>>,
                    ret |-> find_path(graph, start_room, end_room, algorithm)]
        /\ UNCHANGED <<floor_data, graph, johnson>>

FindAllPaths ==
    \E start_room \in QueryIds, end_room \in QueryIds,
       max_paths \in 0..MaxPathsArg, singleton \in BOOLEAN :
        /\ last.op = "idle"
        /\ last' = [op |-> "find_all_paths",
                    args |-> <<start_room, end_room, max_paths>>,
                    ret |-> find_all_paths(graph, start_room, end_room, max_paths, singleton)]
        /\ UNCHANGED <<floor_data, graph, johnson>>

GetShortestDistance ==
    \E start_room \in QueryIds, end_room \in QueryIds :
        /\ last.op = "idle"
        /\ last' = [op |-> "get_shortest_distance",
                    args |-> <<start_room, end_room>>,
                    ret |-> get_shortest_distance(graph, start_room, end_room)]
        /\ UNCHANGED <<floor_data, graph, johnson>>

\* The caller has taken the result (navigate() of server.py builds its
\* response from it); the next request may come.
Return ==
    /\ last.op # "idle"
    /\ last' = Idle
    /\ UNCHANGED <<floor_data, graph, johnson>>

\* Mutant of GetRoomNeighbors: the room asked for becomes a node.
GetRoomNeighborsAdding ==
    \E room_id \in QueryIds :
        /\ last.op = "idle"
        /\ last' = [op |-> "get_room_neighbors",
                    args |-> <<room_id>>,
                    ret |-> Ok(get_room_neighbors(graph, room_id))]
        /\ graph' = add_endpoint(graph, room_id)
        /\ UNCHANGED <<floor_data, johnson>>

GetRoomNeighbors ==
    \E room_id \in QueryIds :
        /\ last.op = "idle"
        /\ last' = [op |-> "get_room_neighbors",
                    args |-> <<room_id>>,
                    ret |-> Ok(get_room_neighbors(graph, room_id))]
        /\ UNCHANGED <<floor_data, graph, johnson>>

IsConnected ==
    \E room1 \in QueryIds, room2 \in QueryIds :
        /\ last.op = "idle"
        /\ last' = [op |-> "is_connected",
                    args |-> <<room1, room2>>,
                    ret |-> Ok(is_connected(graph, room1, room2))]
        /\ UNCHANGED <<floor_data, graph, johnson>>

GetGraphInfo ==
    /\ last.op = "idle"
    /\ last' = [op |-> "get_graph_info", args |-> <<>>, ret |-> get_graph_info(graph)]
    /\ UNCHANGED <<floor_data, graph, johnson>>

Next ==
    \/ FindPath \/ FindAllPaths \/ GetShortestDistance
    \/ GetRoomNeighbors \/ IsConnected \/ GetGraphInfo
    \/ Return

Spec == Init /\ [][Next]_vars

SpecSigned == InitSigned /\ [][Next]_vars

\* JohnsonPathfinder.find_shortest_path on the graph of its caller; the
\* state records the graph before the call and the potentials h.
FindShortestPath ==
    /\ last.op = "idle"
    /\ \E start_room \in QueryIds, end_room \in QueryIds :
        \E r \in {find_shortest_path(graph, start_room, end_room)} :
            /\ graph' = r.graph
            /\ last' = [op |-> "find_shortest_path",
                        args |-> <<start_room, end_room>>,
                        ret |-> r.ret,
                        before |-> graph,
                        h |-> r.h]
            /\ UNCHANGED <<floor_data, johnson>>

NextJohnson == FindShortestPath \/ Return

\* A JohnsonPathfinder on a graph of edges whose weights may be negative.
SpecJohnson == InitSigned /\ [][NextJohnson]_vars

\* The rooms a room named 'source' has an edge to.
SourceNeighbours == {"A", "B"}

\* A floor plan with a room whose id is 'source': a graph of edges of
\* non-negative weight, and an edge of weight 1 from 'source' to a room.
InitSource ==
    /\ \E G \in build_graph(<<>>, NonNegWeights), n \in SourceNeighbours :
           graph = add_edge(G, "source", n, ("weight" :> 1))
    /\ floor_data = EmptyFn
    /\ last = Idle
    /\ johnson = NotCalled

\* A JohnsonPathfinder on a graph that has a room named 'source'.
SpecJohnsonSource == InitSource /\ [][NextJohnson]_vars

\* The four edges of the test graph of pathfinder.py, a cycle, with weights
\* of W.
sample_graphs(W) ==
    {add_edge(add_edge(add_edge(add_edge(EmptyGraph,
         "A", "B", ("weight" :> ab)),
         "B", "C", ("weight" :> bc)),
         "C", "D", ("weight" :> cd)),
         "A", "D", ("weight" :> ad)) : ab \in W, bc \in W, cd \in W, ad \in W}

InitRepeat ==
    /\ graph \in sample_graphs(SignedWeights)
    /\ floor_data = EmptyFn
    /\ last = Idle
    /\ johnson = NotCalled

\* A JohnsonPathfinder called again and again on a graph with a cycle.
SpecJohnsonRepeat == InitRepeat /\ [][NextJohnson]_vars

(* A JohnsonPathfinder and a PathFinder that hold one graph object, as two *)
(* requests served at the same time do.  The call of find_shortest_path    *)
(* is taken statement by statement; `johnson` has its position (pc), the   *)
(* rest of the loop it is in (todo), its potentials (h), and the graph as  *)
(* it was when the call began (before).  The queries of the PathFinder     *)
(* only read the graph, and are taken whole.                               *)

\* Line 9: self.graph.add_node('source'); the loop of line 12 begins.
JohnsonAddSource ==
    /\ last.op = "idle"
    /\ johnson.pc = "idle"
    /\ graph' = add_node(graph, "source", EmptyFn)
    /\ johnson' = [pc |-> "connect", todo |-> graph'.order, h |-> EmptyFn, before |-> graph]
    /\ UNCHANGED <<floor_data, last>>

\* Lines 12-14, one turn of the loop.
JohnsonConnect ==
    /\ last.op = "idle"
    /\ johnson.pc = "connect"
    /\ johnson.todo # <<>>
    /\ graph' = add_source_edges(graph, <<Head(johnson.todo)>>)
    /\ johnson' = [johnson EXCEPT !.todo = Tail(@)]
    /\ UNCHANGED <<floor_data, last>>

\* Lines 17-20 on the potentials h: the ValueError ends the call; otherwise
\* the loop of line 23 begins.
JohnsonPotentials(h) ==
    IF h.exc # "none"
    THEN /\ last' = [op |-> "find_shortest_path",
                     args |-> <<>>,
                     ret |-> johnson_reweight(graph, h, "", "").ret,
                     before |-> johnson.before,
                     h |-> EmptyFn]
         /\ johnson' = NotCalled
    ELSE /\ johnson' = [johnson EXCEPT !.pc = "reweight",
                                       !.todo = edges(graph, graph.order, {}),
                                       !.h = h.val]
         /\ UNCHANGED last

JohnsonBellmanFord ==
    /\ last.op = "idle"
    /\ johnson.pc = "connect"
    /\ johnson.todo = <<>>
    /\ JohnsonPotentials(single_source_bellman_ford_path_length(graph, "source"))
    /\ UNCHANGED <<floor_data, graph>>

\* Lines 23-24, one turn of the loop.
JohnsonReweight ==
    /\ last.op = "idle"
    /\ johnson.pc = "reweight"
    /\ johnson.todo # <<>>
    /\ graph' = reweight(graph, johnson.h, <<Head(johnson.todo)>>)
    /\ johnson' = [johnson EXCEPT !.todo = Tail(@)]
    /\ UNCHANGED <<floor_data, last>>

\* Line 27.
JohnsonRemoveSource ==
    /\ last.op = "idle"
    /\ johnson.pc = "reweight"
    /\ johnson.todo = <<>>
    /\ graph' = johnson_remove_source(graph)
    /\ johnson' = [johnson EXCEPT !.pc = "search"]
    /\ UNCHANGED <<floor_data, last>>

\* Lines 29-44.  The two arguments of the call are not read before line 31.
JohnsonSearch ==
    /\ last.op = "idle"
    /\ johnson.pc = "search"
    /\ \E start_room \in QueryIds, end_room \in QueryIds :
           last' = [op |-> "find_shortest_path",
                    args |-> <<start_room, end_room>>,
                    ret |-> johnson_search(graph, johnson.h, start_room, end_room).ret,
                    before |-> johnson.before,
                    h |-> johnson.h]
    /\ johnson' = NotCalled
    /\ UNCHANGED <<floor_data, graph>>

NextShared ==
    \/ JohnsonAddSource \/ JohnsonConnect \/ JohnsonBellmanFord
    \/ JohnsonReweight \/ JohnsonRemoveSource \/ JohnsonSearch
    \/ FindPath \/ FindAllPaths \/ GetShortestDistance \/ GetGraphInfo
    \/ Return

\* The graphs of the shared object: at most MaxEdges edges, of weight 0 or
\* 1 or, for one edge alone, of weight -1.
InitShared ==
    /\ graph \in build_graph(<<>>, NonNegWeights)
                     \cup {add_edge(EmptyGraph, "A", "B", ("weight" :> -1))}
    /\ floor_data = EmptyFn
    /\ last = Idle
    /\ johnson = NotCalled

SpecShared == InitShared /\ [][NextShared]_vars

\* A GraphBuilder as constructed: its floor data, and an empty graph.
InitBuilder ==
    /\ floor_data \in FloorData
    /\ graph = EmptyGraph
    /\ last = Idle
    /\ johnson = NotCalled

BuildGraph ==
    /\ last.op = "idle"
    /\ \E r \in {GraphBuilder_build_graph(graph, floor_data)} :
           /\ graph' = r.graph
           /\ last' = [op |-> "build_graph", args |-> <<>>, ret |-> r.ret]
    /\ UNCHANGED <<floor_data, johnson>>

GetConnectionType ==
    /\ last.op = "idle"
    /\ \E room1_id \in FloorRoomIds, room2_id \in FloorRoomIds :
           last' = [op |-> "get_connection_type",
                    args |-> <<room1_id, room2_id>>,
                    ret |-> Ok(get_connection_type(graph, room1_id, room2_id))]
    /\ UNCHANGED <<floor_data, graph, johnson>>

\* get_graph_stats is get_graph_info on the graph of the builder.
GetGraphStats ==
    /\ last.op = "idle"
    /\ last' = [op |-> "get_graph_stats", args |-> <<>>, ret |-> get_graph_info(graph)]
    /\ UNCHANGED <<floor_data, graph, johnson>>

NextBuilder == BuildGraph \/ GetConnectionType \/ GetGraphStats \/ Return

SpecBuilder == InitBuilder /\ [][NextBuilder]_vars

----------------------------------------------------------------------------
(* Vocabulary of the properties: graph notions defined on the edge set     *)
(* alone, apart from the algorithms above.                                 *)

Nodes(G) == DOMAIN G.adj

Joined(G, u, v) == <<u, v>> \in DOMAIN G.data

Last(p) == p[Len(p)]

Hops(p) == Len(p) - 1

FollowsEdges(G, p) == \A i \in 1..(Len(p) - 1) : Joined(G, p[i], p[i + 1])

NoRepeat(p) == \A i, j \in 1..Len(p) : i # j => p[i] # p[j]

RECURSIVE WeightFrom(_, _, _)
WeightFrom(G, p, i) ==
    IF i >= Len(p) THEN 0
    ELSE G.data[<<p[i], p[i + 1]>>]["weight"] + WeightFrom(G, p, i + 1)

WeightOf(G, p) == WeightFrom(G, p, 1)

\* The simple paths of P that do not end at e yet, each with one more edge.
Extend(G, e, P) ==
    UNION {{Append(p, w) : w \in {x \in Nodes(G) : Joined(G, Last(p), x) /\ x \notin Range(p)}} :
              p \in {q \in P : Last(q) # e}}

RECURSIVE Grow(_, _, _, _)
Grow(G, e, k, P) ==
    IF k = 0 \/ P = {} THEN P ELSE P \cup Grow(G, e, k - 1, Extend(G, e, P))

\* The simple paths from s to e with at most k edges.
SimplePathsWithin(G, s, e, k) == {p \in Grow(G, e, k, {<<s>>}) : Last(p) = e}

SimplePaths(G, s, e) == SimplePathsWithin(G, s, e, Cardinality(Nodes(G)))

Connected(G, s, e) == SimplePaths(G, s, e) # {}

NonNegative(G) == \A p \in DOMAIN G.data : G.data[p]["weight"] >= 0

\* The graph with every weight replaced by 1.
Unweighted(G) == [G EXCEPT !.data = [p \in DOMAIN @ |-> ("weight" :> 1)]]

\* p goes from s to e along edges of G.
IsPath(G, s, e, p) ==
    /\ p # <<>>
    /\ p[1] = s
    /\ Last(p) = e
    /\ FollowsEdges(G, p)

Min(a, b) == IF a < b THEN a ELSE b

\* The call the state records.
start_room == last.args[1]
end_room == last.args[2]
InGraph == has_node(graph, start_room) /\ has_node(graph, end_room)
FindPathCalled(algorithm) == last.op = "find_path" /\ last.args[3] = algorithm
FindAllPathsCalled == last.op = "find_all_paths"
Returned == last.ret.exc = "none"
Result == last.ret.val
Searches == {"dijkstra", "astar", "bfs"}

\* What find_path answers for the recorded endpoints with `algorithm`.
Answer(algorithm) == find_path(graph, start_room, end_room, algorithm)

\* The recorded endpoints are distinct nodes of the graph with a path
\* between them / with no path between them.
ConnectedPair ==
    /\ InGraph
    /\ start_room # end_room
    /\ Connected(graph, start_room, end_room)

DisconnectedPair ==
    /\ InGraph
    /\ start_room # end_room
    /\ ~Connected(graph, start_room, end_room)

\* The simple paths between the recorded endpoints within the cutoff, and
\* the paths of the recorded result list.
WithinCutoff == SimplePathsWithin(graph, start_room, end_room, Cutoff)

ResultPaths == {Result[i].path : i \in 1..Len(Result)}

----------------------------------------------------------------------------
(* C1: find_path(u, u, algorithm) on a node u of the graph returns         *)
(* success, the path [u] and the distance 0, whatever the algorithm        *)
(* argument, an unknown name included: no search and no dispatch runs.     *)
C1_SameRoom ==
    (last.op = "find_path" /\ start_room = end_room /\ InGraph)
        => last.ret = Ok(Success(<<start_room>>, 0))

C1_Witness ==
    /\ FindPathCalled("dfs") /\ start_room = end_room /\ InGraph
    /\ Result.success /\ Result.path = <<start_room>>

(* C2: on a graph whose weights are all >= 0, for distinct nodes start and *)
(* end with end reachable from start, find_path(start, end, 'dijkstra')    *)
(* succeeds with a path from start to end along edges of the graph, whose  *)
(* summed weight is least among all start-end paths, and the distance it   *)
(* reports is the summed weight of that path.                              *)
C2_DijkstraShortest ==
    (FindPathCalled("dijkstra") /\ NonNegative(graph) /\ ConnectedPair)
        => /\ Returned
           /\ Result.success
           /\ IsPath(graph, start_room, end_room, Result.path)
           /\ \A p \in SimplePaths(graph, start_room, end_room) :
                  WeightOf(graph, Result.path) <= WeightOf(graph, p)
           /\ Result.distance = WeightOf(graph, Result.path)

\* The direct edge is heavier than the way round, which dijkstra takes.
C2_Witness ==
    /\ FindPathCalled("dijkstra") /\ NonNegative(graph) /\ ConnectedPair
    /\ has_edge(graph, start_room, end_room)
    /\ Returned /\ Result.success
    /\ Len(Result.path) = 3
    /\ Result.distance < weight(graph, start_room, end_room)

(* C3, as the specification states it: on a graph without negative         *)
(* weights, for connected nodes, find_path with 'astar' reports the        *)
(* distance find_path with 'dijkstra' reports.  The code does not: the     *)
(* heuristic (straight-line distance between room centers) exceeds the     *)
(* remaining cost when an edge weighs less than its length, as a door      *)
(* edge of weight 0 does, and A* then returns a longer path.               *)
C3_AstarSameDistance ==
    (FindPathCalled("astar") /\ NonNegative(graph) /\ ConnectedPair)
        => /\ Returned
           /\ Result.success
           /\ Result.distance = Answer("dijkstra").val.distance

(* C4: for distinct connected nodes, find_path(start, end, 'bfs') answers  *)
(* as it does on the graph with all weights set to 1 (it ignores weights), *)
(* succeeds with a start-end path with the fewest edges among all          *)
(* start-end paths, reports distance = number of edges of that path, and   *)
(* that number is <= the number of edges of the path 'dijkstra' returns    *)
(* for the same pair, when it returns one.                                 *)
C4_BfsFewestEdges ==
    (FindPathCalled("bfs") /\ ConnectedPair)
        => /\ Returned
           /\ Result.success
           /\ last.ret = find_path(Unweighted(graph), start_room, end_room, "bfs")
           /\ IsPath(graph, start_room, end_room, Result.path)
           /\ \A p \in SimplePaths(graph, start_room, end_room) :
                  Hops(Result.path) <= Hops(p)
           /\ Result.distance = Hops(Result.path)
           /\ (Answer("dijkstra").exc = "none" /\ Answer("dijkstra").val.success)
                  => Result.distance <= Hops(Answer("dijkstra").val.path)

\* bfs takes the direct edge where dijkstra goes the lighter way round.
C4_Witness ==
    /\ FindPathCalled("bfs") /\ ConnectedPair
    /\ Returned /\ Result.success
    /\ Result.distance = 1
    /\ Answer("dijkstra").exc = "none"
    /\ Answer("dijkstra").val.success
    /\ Hops(Answer("dijkstra").val.path) = 2

(* C5: find_path returns the failure result (success false, empty path,    *)
(* distance 0) naming the start when the start is not a node of the graph, *)
(* and the one naming the destination when the start is a node and the     *)
(* destination is not; so the start is checked first, and both checks come *)
(* before the start = end short-circuit and before the dispatch on the     *)
(* algorithm (the answer is the same for equal endpoints and for an        *)
(* unknown algorithm name).                                                *)
C5_MissingEndpoint ==
    (last.op = "find_path")
        => /\ ~has_node(graph, start_room)
                  => last.ret = Ok(Failure(<<"Starting room ", start_room, " not found">>))
           /\ (has_node(graph, start_room) /\ ~has_node(graph, end_room))
                  => last.ret = Ok(Failure(<<"Destination room ", end_room, " not found">>))

\* Both endpoints are missing and equal, the algorithm is unknown: the
\* failure names the start.
C5_Witness ==
    /\ FindPathCalled("dfs")
    /\ start_room = end_room
    /\ ~has_node(graph, start_room)
    /\ graph.order # <<>>
    /\ Returned /\ ~Result.success
    /\ Result.error = <<"Starting room ", start_room, " not found">>

(* C6, as the specification states it: on every graph, for distinct nodes  *)
(* with no path between them, find_path with 'dijkstra', 'astar' or 'bfs'  *)
(* returns the failure result whose error says "No path".                  *)
C6_NoPath ==
    (last.op = "find_path" /\ last.args[3] \in Searches /\ DisconnectedPair)
        => last.ret = Ok(Failure(<<"No path found between ", start_room, " and ", end_room>>))

(* C6, corrected: the same on graphs whose weights are all >= 0, and for   *)
(* 'bfs' on every graph.  (With a negative weight 'dijkstra' may end in    *)
(* the failure "Pathfinding error" instead.)                               *)
C6_NoPathNonNegative ==
    (/\ last.op = "find_path"
     /\ last.args[3] \in Searches
     /\ DisconnectedPair
     /\ (NonNegative(graph) \/ last.args[3] = "bfs"))
        => last.ret = Ok(Failure(<<"No path found between ", start_room, " and ", end_room>>))

\* Both endpoints have edges, none of them negative, and no path joins them.
C6_Witness ==
    /\ FindPathCalled("dijkstra") /\ DisconnectedPair /\ NonNegative(graph)
    /\ graph.adj[start_room] # <<>>
    /\ graph.adj[end_room] # <<>>
    /\ Returned /\ ~Result.success
    /\ Result.error[1] = "No path found between "

(* C7, as the specification states it: find_path with an algorithm name    *)
(* other than 'dijkstra', 'astar', 'bfs' returns a failure result (success *)
(* false, empty path, distance 0), the unsupported-algorithm one when both *)
(* endpoints are nodes, and never a path.                                  *)
C7_Unsupported ==
    (last.op = "find_path" /\ last.args[3] \notin Searches)
        => /\ Returned
           /\ ~Result.success
           /\ Result.path = <<>>
           /\ Result.distance = 0
           /\ InGraph => Result.error = <<"Unknown algorithm: ", last.args[3]>>

(* C7, corrected: with an unknown algorithm name and both endpoints nodes  *)
(* of the graph and distinct, find_path returns the unsupported-algorithm  *)
(* failure; a path is returned only for equal endpoints (the path [start]).*)
C7_UnsupportedDistinct ==
    (last.op = "find_path" /\ last.args[3] \notin Searches)
        => /\ Returned
           /\ (InGraph /\ start_room # end_room)
                  => Result = Failure(<<"Unknown algorithm: ", last.args[3]>>)
           /\ ~(InGraph /\ start_room = end_room)
                  => (~Result.success /\ Result.path = <<>> /\ Result.distance = 0)

\* A path exists, and yet the answer is the failure.
C7_Witness ==
    /\ FindPathCalled("dfs") /\ ConnectedPair
    /\ Returned /\ ~Result.success
    /\ Result.error = <<"Unknown algorithm: ", "dfs">>

(* C8: every path find_all_paths(start, end, max_paths) returns goes from  *)
(* start to end along edges of the graph and visits no node twice, and the *)
(* list is in order of non-decreasing number of edges.                     *)
C8_SimpleSorted ==
    FindAllPathsCalled
        => /\ Returned
           /\ \A i \in 1..Len(Result) :
                  /\ IsPath(graph, start_room, end_room, Result[i].path)
                  /\ NoRepeat(Result[i].path)
           /\ \A i, j \in 1..Len(Result) :
                  i < j => Hops(Result[i].path) <= Hops(Result[j].path)

\* Two paths of different lengths are returned, the direct edge first
\* although the search finds it last.
C8_Witness ==
    /\ FindAllPathsCalled /\ Returned
    /\ Len(Result) = 2
    /\ Hops(Result[1].path) = 1
    /\ Hops(Result[2].path) = 2
    /\ graph.adj[start_room][Len(graph.adj[start_room])] = end_room

(* C9: find_all_paths returns at most max_paths results, each with at most *)
(* 10 edges; they are distinct simple paths within the cutoff and none of  *)
(* the simple paths within the cutoff that it omits has fewer edges than   *)
(* one it returns; for distinct endpoints their number is the smaller of   *)
(* max_paths and the number of simple paths within the cutoff; each        *)
(* result's distance is the sum of the weights of its edges and its steps  *)
(* the number of its edges.                                                *)
C9_FewestHops ==
    (FindAllPathsCalled /\ InGraph)
        => /\ Returned
           /\ Len(Result) <= last.args[3]
           /\ \A i \in 1..Len(Result) :
                  /\ Hops(Result[i].path) <= Cutoff
                  /\ Result[i].path \in WithinCutoff
                  /\ Result[i].distance = WeightOf(graph, Result[i].path)
                  /\ Result[i].steps = Hops(Result[i].path)
           /\ Cardinality(ResultPaths) = Len(Result)
           /\ \A q \in WithinCutoff \ ResultPaths :
                  \A p \in ResultPaths : Hops(p) <= Hops(q)
           /\ start_room # end_room
                  => Len(Result) = Min(last.args[3], Cardinality(WithinCutoff))

\* The cutoff binds: a simple path longer than 10 edges exists and is not
\* returned although max_paths would allow it.
C9_Witness ==
    /\ FindAllPathsCalled /\ InGraph /\ Returned
    /\ Len(Result) >= 1
    /\ Len(Result) < last.args[3]
    /\ \E p \in SimplePaths(graph, start_room, end_room) : Hops(p) > Cutoff

(* C10: find_all_paths never raises; it returns the empty list when an     *)
(* endpoint is not a node of the graph and when no simple path of at most  *)
(* 10 edges joins the endpoints; every element it returns has success      *)
(* true.                                                                   *)
C10_NeverRaises ==
    FindAllPathsCalled
        => /\ Returned
           /\ ~InGraph => Result = <<>>
           /\ (InGraph /\ WithinCutoff = {}) => Result = <<>>
           /\ \A i \in 1..Len(Result) : Result[i].success

\* The endpoints are joined, but only by a path longer than the cutoff.
C10_Witness ==
    /\ FindAllPathsCalled /\ ConnectedPair /\ last.args[3] > 0
    /\ WithinCutoff = {}
    /\ Returned /\ Result = <<>>

(* C11, as the specification states it: get_shortest_distance(start, end)  *)
(* never raises; it returns the least summed weight of a start-end path    *)
(* when end is reachable from start, and -1 otherwise, both when the two   *)
(* nodes are not joined and when start or end is not a node of the graph.  *)
(* The code does not: a start that is not a node makes                     *)
(* nx.shortest_path_length raise NodeNotFound, which the method does not   *)
(* catch.                                                                  *)
C11_DistanceOrSentinel ==
    (last.op = "get_shortest_distance" /\ NonNegative(graph))
        => /\ Returned
           /\ (InGraph /\ Connected(graph, start_room, end_room))
                  => \E p \in SimplePaths(graph, start_room, end_room) :
                         /\ Result = WeightOf(graph, p)
                         /\ \A q \in SimplePaths(graph, start_room, end_room) :
                                Result <= WeightOf(graph, q)
           /\ ~(InGraph /\ Connected(graph, start_room, end_room))
                  => Result = -1

----------------------------------------------------------------------------
(* Vocabulary of the JohnsonPathfinder properties.                         *)

\* The same nodes, the same edges and the same weights.
SameGraph(G, H) == Nodes(G) = Nodes(H) /\ G.data = H.data

FindShortestPathCalled == last.op = "find_shortest_path"

\* The least summed weight of a path from s to e in G.
TrueDistance(G, s, e) == MinOf({WeightOf(G, p) : p \in SimplePaths(G, s, e)})

\* The recorded endpoints are nodes of the graph before the call, one
\* reachable from the other.
ReachableBefore ==
    /\ has_node(last.before, start_room)
    /\ has_node(last.before, end_room)
    /\ Connected(last.before, start_room, end_room)

(* C12, as the specification states it: on a graph with a negative-weight  *)
(* edge find_shortest_path fails with the negative-cycle error, and the    *)
(* graph then has the nodes, edges and weights it had before the call.     *)
(* The code does not restore the graph: the 'source' node and its          *)
(* zero-weight edges, added before Bellman-Ford runs, are still there.     *)
C12_NegativeCycleUntouched ==
    (FindShortestPathCalled /\ ~NonNegative(last.before))
        => /\ last.ret = Raise(NegativeCycle)
           /\ SameGraph(graph, last.before)

C14_Reweighted ==
    (FindShortestPathCalled /\ last.ret.exc # NegativeCycle)
        => /\ ~has_node(graph, "source")
           /\ DOMAIN graph.data = DOMAIN last.before.data
           /\ \A p \in DOMAIN graph.data :
                  /\ graph.data[p]["weight"] >= 0
                  /\ \/ graph.data[p]["weight"] =
                            last.before.data[p]["weight"] + last.h[p[1]] - last.h[p[2]]
                     \/ graph.data[p]["weight"] =
                            last.before.data[p]["weight"] + last.h[p[2]] - last.h[p[1]]

\* The reweighting ran on a graph of three edges, with a potential for
\* every node and for the source.
C14_Witness ==
    /\ FindShortestPathCalled /\ last.ret.exc # NegativeCycle
    /\ Cardinality(DOMAIN graph.data) = 6
    /\ DOMAIN last.h = Nodes(graph) \cup {"source"}
    /\ \E p \in DOMAIN graph.data : graph.data[p]["weight"] > 0
    /\ ~has_node(graph, "source")

----------------------------------------------------------------------------
(* Vocabulary of the GraphBuilder properties.                              *)

BuildGraphCalled == last.op = "build_graph"

\* build_graph has returned the graph of some floor data.
Built == BuildGraphCalled /\ Returned

RoomsOf(data) == IF "rooms" \in DOMAIN data THEN data.rooms ELSE <<>>

DoorsOf(data) == IF "doors" \in DOMAIN data THEN data.doors ELSE <<>>

RoomIdsOf(data) == {RoomsOf(data)[i].id : i \in 1..Len(RoomsOf(data))}

\* The connects list of the door has exactly two ids.
TwoRooms(door) == "connects" \in DOMAIN door /\ Len(door.connects) = 2

TwoRoomDoors(data) == {DoorsOf(data)[i] : i \in {j \in 1..Len(DoorsOf(data)) : TwoRooms(DoorsOf(data)[j])}}

PairOf(door) == {door.connects[1], door.connects[2]}

\* The data dict of the edge between the two rooms of a door.
DoorEdge(G, door) == G.data[<<door.connects[1], door.connects[2]>>]

\* The door edge of the graph carries the id and the position of door d.
Carries(G, door, d) ==
    /\ has_edge(G, door.connects[1], door.connects[2])
    /\ DoorEdge(G, door).type = "door"
    /\ DoorEdge(G, door).weight = 0
    /\ DoorEdge(G, door).door_id = d.id
    /\ DoorEdge(G, door).position = d.position

\* The last door of the list that connects the two rooms doors[i] connects.
LastOnPair(doors, i) ==
    doors[CHOOSE j \in i..Len(doors) :
              /\ TwoRooms(doors[j]) /\ PairOf(doors[j]) = PairOf(doors[i])
              /\ \A k \in (j + 1)..Len(doors) :
                     ~(TwoRooms(doors[k]) /\ PairOf(doors[k]) = PairOf(doors[i]))]

\* The floor data without the doors that do not connect exactly two rooms.
OnlyTwoRoomDoors(data) ==
    IF "doors" \in DOMAIN data
    THEN [data EXCEPT !.doors = SelectSeq(@, TwoRooms)]
    ELSE data

EveryRoomANode ==
    \A i \in 1..Len(RoomsOf(floor_data)) :
        /\ has_node(graph, RoomsOf(floor_data)[i].id)
        /\ graph.attr[RoomsOf(floor_data)[i].id].type = "room"

OtherDoorsSkipped ==
    graph = GraphBuilder_build_graph(EmptyGraph, OnlyTwoRoomDoors(floor_data)).graph

(* C16, as the specification states it: after build_graph every room of    *)
(* the floor data is a node of type room, every door with exactly two ids  *)
(* in its connects list has an edge of type door and weight 0 between them *)
(* that carries the id and the position of that door, and the doors with   *)
(* any other number of ids add nothing and raise nothing.  It fails for    *)
(* the first of two doors that connect the same two rooms: build_graph     *)
(* takes the second door and writes its data over those of the first.      *)
C16_DoorEdges ==
    (BuildGraphCalled /\ floor_data # EmptyFn)
        => /\ Returned
           /\ EveryRoomANode
           /\ \A i \in 1..Len(DoorsOf(floor_data)) :
                  TwoRooms(DoorsOf(floor_data)[i])
                      => Carries(graph, DoorsOf(floor_data)[i], DoorsOf(floor_data)[i])
           /\ OtherDoorsSkipped

(* What the code does of C16: after build_graph every room of the floor    *)
(* data is a node of type room, every door with exactly two ids in its     *)
(* connects list has an edge of type door and weight 0 between them that   *)
(* carries the id and the position of the last door of the list connecting *)
(* those two rooms, and the doors with any other number of ids add nothing *)
(* and raise nothing.                                                      *)
C16_LastDoorEdges ==
    (BuildGraphCalled /\ floor_data # EmptyFn)
        => /\ Returned
           /\ EveryRoomANode
           /\ \A i \in 1..Len(DoorsOf(floor_data)) :
                  TwoRooms(DoorsOf(floor_data)[i])
                      => Carries(graph, DoorsOf(floor_data)[i],
                                 LastOnPair(DoorsOf(floor_data), i))
           /\ OtherDoorsSkipped

\* Two rooms, a door between them and a door naming three rooms: the graph
\* has the one edge.
C16_Witness ==
    /\ Built
    /\ RoomIdsOf(floor_data) = {"A", "C"}
    /\ Len(DoorsOf(floor_data)) = 2
    /\ TwoRooms(DoorsOf(floor_data)[1])
    /\ DoorsOf(floor_data)[1].connects = <<"A", "C">>
    /\ "connects" \in DOMAIN DoorsOf(floor_data)[2]
    /\ Len(DoorsOf(floor_data)[2].connects) = 3
    /\ Carries(graph, DoorsOf(floor_data)[1], DoorsOf(floor_data)[1])
    /\ Cardinality(DOMAIN graph.data) = 2

(* C17, as the specification states it: in the graph build_graph returns,  *)
(* both endpoints of every edge are rooms of the rooms list, and no node   *)
(* is there that the rooms list did not give: a door naming an id of no    *)
(* room adds neither an edge nor a node.  The code adds both.              *)
C17_EndpointsAreRooms ==
    Built
        => /\ \A p \in DOMAIN graph.data :
                  p[1] \in RoomIdsOf(floor_data) /\ p[2] \in RoomIdsOf(floor_data)
           /\ Nodes(graph) \subseteq RoomIdsOf(floor_data)

(* C18, as the specification states it: the graph build_graph returns has  *)
(* no edge from a node to itself, and one edge at most between two nodes   *)
(* (the two directions of a pair are the same edge), whatever the rooms    *)
(* and doors.  A door whose two ids are equal, and a room list that        *)
(* repeats an id, give a self-loop.                                        *)
C18_Simple ==
    Built
        => \A p \in DOMAIN graph.data :
               /\ p[1] # p[2]
               /\ <<p[2], p[1]>> \in DOMAIN graph.data
               /\ graph.data[<<p[2], p[1]>>] = graph.data[p]

\* Some door of the floor data connects exactly the two rooms u and v.
DoorBetween(data, u, v) == \E d \in TwoRoomDoors(data) : PairOf(d) = {u, v}

(* C19: in the graph build_graph returns, the edge between the two rooms   *)
(* of a two-room door has type door, in both directions, and the data the  *)
(* door pass gave it (those of the last door on the pair), whatever the    *)
(* distance of the room centers; and get_connection_type, called on the    *)
(* built graph for two rooms some door connects, returns 'door'.           *)
C19_DoorPriority ==
    /\ Built
           => \A i \in 1..Len(DoorsOf(floor_data)) :
                  TwoRooms(DoorsOf(floor_data)[i])
                      => /\ get_connection_type(graph, DoorsOf(floor_data)[i].connects[1],
                                                DoorsOf(floor_data)[i].connects[2]) = "door"
                         /\ get_connection_type(graph, DoorsOf(floor_data)[i].connects[2],
                                                DoorsOf(floor_data)[i].connects[1]) = "door"
                         /\ DoorEdge(graph, DoorsOf(floor_data)[i])
                                = door_attr(LastOnPair(DoorsOf(floor_data), i), 0)
    /\ (/\ last.op = "get_connection_type"
        /\ graph # EmptyGraph
        /\ DoorBetween(floor_data, last.args[1], last.args[2]))
           => last.ret = Ok("door")

\* Rooms A and C, whose centers are 150 apart, and a door between them:
\* get_connection_type on the built graph says door.
C19_Witness ==
    /\ last.op = "get_connection_type"
    /\ last.args = <<"C", "A">>
    /\ last.ret = Ok("door")
    /\ RoomsOf(floor_data) = <<Room("A", FloorCenter["A"]), Room("C", FloorCenter["C"])>>
    /\ calculate_distance(FloorCenter["A"], FloorCenter["C"]) < CorridorThreshold
    /\ DoorBetween(floor_data, "A", "C")
    /\ graph # EmptyGraph

\* No id occurs twice in the rooms list.
DistinctRoomIds(data) ==
    \A i, j \in 1..Len(RoomsOf(data)) : i # j => RoomsOf(data)[i].id # RoomsOf(data)[j].id

HasDoorEdge(G, u, v) == has_edge(G, u, v) /\ G.data[<<u, v>>].type = "door"

HasCorridorEdge(G, u, v) == has_edge(G, u, v) /\ G.data[<<u, v>>].type = "corridor"

\* What C20 says of two rooms whose centers are `distance` apart.
CorridorRule(G, u, v, distance) ==
    ~HasDoorEdge(G, u, v)
        => /\ HasCorridorEdge(G, u, v) <=> distance < 200
           /\ has_edge(G, u, v) <=> HasCorridorEdge(G, u, v)
           /\ HasCorridorEdge(G, u, v) => 10 * G.data[<<u, v>>].weight = 12 * distance
           /\ distance = 200 => ~has_edge(G, u, v)

----------------------------------------------------------------------------
\* find_path('A', 'D', 'dijkstra') was called on the test graph of
\* pathfinder.py.
SampleCall ==
    /\ FindPathCalled("dijkstra")
    /\ graph = sample_graph
    /\ last.args = <<"A", "D", "dijkstra">>

(* C23, as the specification states it: on the graph with the edges A-B of *)
(* weight 1, B-C of weight 2, C-D of weight 1 and A-D of weight 4, every   *)
(* call find_path('A', 'D', 'dijkstra') returns the path [A, B, C, D] with *)
(* the distance 4.  The code returns the other path of weight 4, [A, D].   *)
C23_SamplePath ==
    SampleCall => last.ret = Ok(Success(<<"A", "B", "C", "D">>, 4))

(* C23, amended: on that graph every call find_path('A', 'D', 'dijkstra')  *)
(* returns the path [A, D] with the distance 4: of the two paths of weight *)
(* 4 the search keeps the one it met first, the direct edge, so the same   *)
(* call on the same graph has the same answer every time.                  *)
C23_SampleDirect ==
    SampleCall => last.ret = Ok(Success(<<"A", "D">>, 4))

\* The call was made, and both paths of the graph weigh 4.
C23_Witness ==
    /\ SampleCall
    /\ Returned /\ Result.success
    /\ {WeightOf(graph, p) : p \in SimplePaths(graph, "A", "D")} = {4}
    /\ Cardinality(SimplePaths(graph, "A", "D")) = 2

\* The node has center data.
HasCenter(G, n) == "center" \in DOMAIN G.attr[n]

\* What C24 says of the heuristic value between the nodes u and v.
HeuristicRule(G, u, v) ==
    heuristic(G, u, v) =
        IF HasCenter(G, u) /\ HasCenter(G, v)
        THEN euclidean(G.attr[u].center, G.attr[v].center)
        ELSE 0

(* C24, as the specification states it: in a find_path call with 'astar',  *)
(* the heuristic value between a node and the destination is the distance  *)
(* between their centers, and 0 when one of the two has no center data.    *)
(* The code takes (0, 0) for a missing center, so the value is the         *)
(* distance of the other center from the origin.                           *)
C24_HeuristicZero ==
    (FindPathCalled("astar") /\ InGraph)
        => \A u \in Nodes(graph) : HeuristicRule(graph, u, end_room)

----------------------------------------------------------------------------
GetGraphStatsCalled == last.op = "get_graph_stats"

\* The edges of the graph, each the set of its one or two endpoints.
EdgeSet(G) == {{p[1], p[2]} : p \in DOMAIN G.data}

\* One connected component spans all the nodes.
OneComponent(G) ==
    /\ Nodes(G) # {}
    /\ \A u, v \in Nodes(G) : u = v \/ Connected(G, u, v)

\* The dict stats has the node count, the edge count, the connectivity and
\* the density edges / (nodes * (nodes - 1) / 2) of the graph.
StatsOf(G, stats) ==
    /\ stats.nodes = Cardinality(Nodes(G))
    /\ stats.edges = Cardinality(EdgeSet(G))
    /\ stats.is_connected <=> OneComponent(G)
    /\ Cardinality(Nodes(G)) >= 2
           => stats.density.num * (Cardinality(Nodes(G)) * (Cardinality(Nodes(G)) - 1))
                  = stats.density.den * 2 * Cardinality(EdgeSet(G))

(* C22, as the specification states it: get_graph_stats returns a dict     *)
(* with nodes the number of nodes, edges the number of edges, is_connected *)
(* true exactly when one connected component spans all nodes, and density  *)
(* edges / (nodes * (nodes - 1) / 2).  On a graph without nodes the code   *)
(* raises instead.                                                         *)
C22_Stats ==
    GetGraphStatsCalled => (Returned /\ StatsOf(graph, Result))

----------------------------------------------------------------------------
(* C25: no step of a PathFinder (find_path with any algorithm name,        *)
(* find_all_paths, get_shortest_distance, get_room_neighbors,              *)
(* is_connected, get_graph_info, returning a value or raising) changes the *)
(* nodes, the edges or an edge weight of the graph.                        *)
C25_GraphUnchanged == [][SameGraph(graph', graph)]_vars

\* A query has raised on a graph that has an edge of negative weight.
C25_Witness ==
    /\ last.op \in {"find_path", "find_all_paths", "get_shortest_distance",
                    "get_room_neighbors", "is_connected", "get_graph_info"}
    /\ last.op = "get_shortest_distance"
    /\ last.ret.exc = "ValueError"
    /\ ~NonNegative(graph)

----------------------------------------------------------------------------
\* The result dict r of a find_path call from s to e has the shape C28
\* describes.
ResultShape(G, s, e, r) ==
    IF r.success
    THEN /\ r.path # <<>>
         /\ r.path[1] = s
         /\ Last(r.path) = e
         /\ FollowsEdges(G, r.path)
         /\ "error" \notin DOMAIN r
    ELSE /\ r.path = <<>>
         /\ r.distance = 0
         /\ "error" \in DOMAIN r

(* C28: a find_path call, whatever the rooms, the algorithm name and the   *)
(* weights of the graph, does not raise (it returns, or with 'astar' on a  *)
(* graph with a negative weight it may search without end), and the dict   *)
(* it returns has, with success true, a non-empty path from start to end   *)
(* along edges of the graph and no error field, and with success false, an *)
(* empty path, the distance 0 and an error field.                          *)
C28_ResultShape ==
    last.op = "find_path"
        => /\ last.ret.exc \in {"none", "diverges"}
           /\ Returned => ResultShape(graph, start_room, end_room, Result)

\* The failure result of a search the library raised in, on a graph with a
\* negative weight.
C28_Witness ==
    /\ last.op = "find_path"
    /\ ~NonNegative(graph)
    /\ Returned
    /\ ~Result.success
    /\ Result.error = <<"Pathfinding error: ", "ValueError">>

----------------------------------------------------------------------------
\* The first room of the list that has the id of rooms[i].
FirstWithId(rooms, i) ==
    rooms[CHOOSE j \in 1..i :
              /\ rooms[j].id = rooms[i].id
              /\ \A k \in 1..(j - 1) : rooms[k].id # rooms[i].id]

\* The node of the room has the name, the center and the bounds of `room`.
HasDataOf(G, room) ==
    /\ has_node(G, room.id)
    /\ G.attr[room.id].name = room.name
    /\ G.attr[room.id].center = room.center
    /\ G.attr[room.id].bounds = room.bounds

(* C26, as the specification states it: build_graph on a rooms list that   *)
(* repeats an id fails with the duplicate-node error, and the node of a    *)
(* room keeps the name, center and bounds of the first room of that id.    *)
(* The code raises nothing and the later room overwrites the earlier.      *)
C26_DuplicateRoomRejected ==
    BuildGraphCalled
        => /\ ~DistinctRoomIds(floor_data) => last.ret.exc = "DuplicateNodeError"
           /\ \A i \in 1..Len(RoomsOf(floor_data)) :
                  has_node(graph, RoomsOf(floor_data)[i].id)
                      => HasDataOf(graph, FirstWithId(RoomsOf(floor_data), i))

\* The first door of the list that connects the two rooms doors[i] connects.
FirstOnPair(doors, i) ==
    doors[CHOOSE j \in 1..i :
              /\ TwoRooms(doors[j]) /\ PairOf(doors[j]) = PairOf(doors[i])
              /\ \A k \in 1..(j - 1) :
                     ~(TwoRooms(doors[k]) /\ PairOf(doors[k]) = PairOf(doors[i]))]

\* Two doors of the list connect the same two rooms.
RepeatedDoor(doors) ==
    \E i, j \in 1..Len(doors) :
        i < j /\ TwoRooms(doors[i]) /\ TwoRooms(doors[j]) /\ PairOf(doors[i]) = PairOf(doors[j])

(* C27, as the specification states it: when two doors connect the same    *)
(* two rooms, build_graph fails the second with the duplicate-edge error,  *)
(* and the edge between the two rooms has the door id, the position and    *)
(* the weight of the first door.  The code raises nothing and the edge     *)
(* has the data of the second door.                                        *)
C27_SecondDoorRejected ==
    BuildGraphCalled
        => /\ RepeatedDoor(DoorsOf(floor_data)) => last.ret.exc = "DuplicateEdgeError"
           /\ \A i \in 1..Len(DoorsOf(floor_data)) :
                  (/\ TwoRooms(DoorsOf(floor_data)[i])
                   /\ has_edge(graph, DoorsOf(floor_data)[i].connects[1],
                               DoorsOf(floor_data)[i].connects[2]))
                      => Carries(graph, DoorsOf(floor_data)[i],
                                 FirstOnPair(DoorsOf(floor_data), i))

----------------------------------------------------------------------------
\* The edges of G at node n, with their data.
EdgesAt(G, n) == Restrict(G.data, {p \in DOMAIN G.data : p[1] = n \/ p[2] = n})

(* C29, as stated: when the graph has a room named 'source' before a call  *)
(* of find_shortest_path, then after the call returns the room is a node   *)
(* of the graph and the edges at it are those it had before the call, with *)
(* their weights.  The code removes the room with the node it takes for    *)
(* its own.                                                                *)
C29_RealSourceKept ==
    (FindShortestPathCalled /\ Returned /\ has_node(last.before, "source"))
        => /\ has_node(graph, "source")
           /\ EdgesAt(graph, "source") = EdgesAt(last.before, "source")

----------------------------------------------------------------------------
\* What find_shortest_path(s, e) returns or raises on the graph G.
JohnsonAnswer(G, s, e) == find_shortest_path(G, s, e).ret

(* C30: a call of find_shortest_path leaves the graph such that every pair *)
(* of rooms gets from the next call the answer (path and distance, the     *)
(* no-path failure, or the exception) it would have got in place of that   *)
(* call; so in a sequence of calls on one graph a pair gets from every     *)
(* call the answer of the first.                                           *)
(* (A graph equal to the one before the call, node order and adjacency     *)
(* order included, gives equal answers; the answers are computed when it   *)
(* is not.)                                                                *)
C30_SameAnswers ==
    FindShortestPathCalled
        => \/ graph = last.before
           \/ \A s \in QueryIds, e \in QueryIds :
                  JohnsonAnswer(graph, s, e) = JohnsonAnswer(last.before, s, e)

\* A call returned a path over two edges, one of positive weight, and the
\* same call made again returns that path and that distance.
C30_Witness ==
    /\ FindShortestPathCalled /\ Returned /\ Result.success
    /\ Len(Result.path) = 3
    /\ Result.distance > 0
    /\ JohnsonAnswer(graph, start_room, end_room) = last.ret

----------------------------------------------------------------------------
\* The queries of a PathFinder that C21 names.
Queries == {"find_path", "find_all_paths", "get_shortest_distance", "get_graph_info"}

\* What the query `op` with the arguments `args` can return on the graph G.
QueryAnswers(G, op, args) ==
    IF op = "find_path" THEN {find_path(G, args[1], args[2], args[3])}
    ELSE IF op = "find_all_paths"
    THEN {find_all_paths(G, args[1], args[2], args[3], singleton) : singleton \in BOOLEAN}
    ELSE IF op = "get_shortest_distance" THEN {get_shortest_distance(G, args[1], args[2])}
    ELSE {get_graph_info(G)}

\* A call of find_shortest_path has begun and has not ended.
JohnsonRunning == johnson.pc # "idle"

(* C21, as stated: a query of the PathFinder made while a call of          *)
(* find_shortest_path on the same graph object is in progress returns what *)
(* it returns on the graph as it was before that call began.  The code     *)
(* works on the one graph object, and the query sees the 'source' node.    *)
C21_QueriesIsolated ==
    (JohnsonRunning /\ last.op \in Queries)
        => last.ret \in QueryAnswers(johnson.before, last.op, last.args)

====
